---- MODULE Spec2Model ----
(***************************************************************************)
(* Verification model of btc_auto_bot: the lot ledger (src/src/db.py), the *)
(* order execution guard (src/src/exchange_binance.py), the percent        *)
(* strategy (src/src/strategy_percent.py), the control loop                *)
(* (src/src/main.py) and the parameter bandit (src/src/ai_bandit.py).      *)
(*                                                                         *)
(* Numbers.  The program computes with Python floats and Decimals.  The    *)
(* model computes exactly: prices and quantities are integers counted in a *)
(* fixed unit, rates are integers counted in basis points (1/10000), and a *)
(* value that need not be a whole number of units (an average price, a     *)
(* trigger price) is a reduced fraction [n, d].                            *)
(***************************************************************************)
EXTENDS Integers, Sequences, FiniteSets, TLC

VARIABLES
    lots,          \* db.py: the rows of table lots, row id = index
    lastOp,        \* the ledger operation applied last: its name, the row it touched and
                   \* the price and quantity it was called with
    nOps,          \* number of ledger operations applied so far
    filters,       \* exchange_binance.py: the cached symbol filters
    gCall,         \* the parameters of the last client.create_order call, or NoCall
    gResult,       \* how the last placement call of the guard ended
    rState,        \* _safe_call: idle, calling, waiting, returned or raised
    rHistory,      \* _safe_call: how each attempt of the underlying call ended, in order
    rSlept,        \* _safe_call: total backoff slept, in half seconds
    cfg,           \* strategy_percent.py: the StrategyConfig of the strategy
    strat,         \* strategy_percent.py: the PercentStrategy (position, ref_price, balance)
    sOut,          \* the strategy method called last, its arguments and what it returned
    sExec,         \* number of execution callbacks applied to the strategy so far
    pc,            \* main.py: where the control loop stands
    tk,            \* main.py: the locals of the running tick (price, state, buy_price, st)
    ob,            \* main.py: open_buy_cid, open_buy_price and the age of open_buy_ts
    os,            \* main.py: open_sell_cid, open_sell_price and the age of open_sell_ts
    tss,           \* main.py: trades_since_switch
    swAge,         \* main.py: time since last_switch_ts
    config_id,     \* main.py: the id of the active configuration
    trades,        \* db.py: the rows of table trades, in insertion order
    orders,        \* the exchange: the bot's orders by client order id
    faults,        \* the failures the environment may still inject
    nFills,        \* the fills the exchange has made so far
    unrec,         \* the orders whose fill was applied to the strategy and not recorded
    interrupted,   \* whether a KeyboardInterrupt was delivered
    merge,         \* two buys and the ledgers after upsert_accum_lot took them in either order
    configs,       \* db.py: the rows of table configs, row id = index
    pm,            \* ai_bandit.py: the ParamManager of the process, if constructed
    chosen,        \* what the last choose_active_config returned or raised
    ids,           \* main.py: the wall clock and the client order ids sent so far
    resume,        \* db.py: a table trades and what get_open_position_from_trades
                   \* returned for it
    start          \* main.py: what the last start of the process read and resumed

ledgerVars == <<lots, lastOp, nOps>>
guardVars == <<filters, gCall, gResult>>
retryVars == <<rState, rHistory, rSlept>>
stratVars == <<cfg, strat, sOut, sExec>>
loopVars == <<pc, tk, ob, os, tss, swAge, config_id, trades, orders, faults, nFills,
              unrec, interrupted>>
mergeVars == <<merge>>
banditVars == <<configs, pm, chosen>>
auxVars == <<ids, resume, start>>
vars == <<lots, lastOp, nOps, filters, gCall, gResult, rState, rHistory, rSlept,
          cfg, strat, sOut, sExec, pc, tk, ob, os, tss, swAge, config_id, trades,
          orders, faults, nFills, unrec, interrupted, merge, configs, pm, chosen, ids,
          resume, start>>

\* what the operations of one component leave alone
notLedger == <<guardVars, retryVars, stratVars, loopVars, mergeVars, banditVars,
    auxVars>>
notGuard == <<ledgerVars, retryVars, stratVars, loopVars, mergeVars, banditVars,
    auxVars>>
notRetry == <<ledgerVars, guardVars, stratVars, loopVars, mergeVars, banditVars,
    auxVars>>
notStrat == <<ledgerVars, guardVars, retryVars, loopVars, mergeVars, banditVars,
    auxVars>>
\* the loop drives the strategy (cfg, strat) and reads the cached filters
notLoop == <<ledgerVars, retryVars, gCall, gResult, sOut, sExec, filters, mergeVars,
             banditVars, auxVars>>
notMerge == <<ledgerVars, guardVars, retryVars, stratVars, loopVars, banditVars,
    auxVars>>
\* the bandit reads table trades, which insert_trade fills
notBandit == <<ledgerVars, guardVars, retryVars, stratVars, mergeVars, pc, tk, ob, os,
               tss, swAge, config_id, orders, faults, nFills, unrec, interrupted,
               auxVars>>
notIds == <<ledgerVars, guardVars, retryVars, stratVars, loopVars, mergeVars, banditVars,
           resume, start>>
notResume == <<ledgerVars, guardVars, retryVars, stratVars, loopVars, mergeVars,
              banditVars, ids, start>>
\* a start builds the strategy, reads table trades and places on the exchange
notStart == <<ledgerVars, retryVars, gCall, gResult, sOut, sExec, filters, mergeVars,
              banditVars, ids, resume, tk, nFills, unrec>>

-----------------------------------------------------------------------------
(* Arithmetic helpers *)

Abs(x) == IF x < 0 THEN -x ELSE x

\* Euclid's algorithm on naturals
Euclid[a \in Nat, b \in Nat] == IF b = 0 THEN a ELSE Euclid[b, a % b]

GCD(a, b) == Euclid[Abs(a), Abs(b)]

\* the fraction n/d in lowest terms, d > 0
Reduce[n \in Int, d \in Int] ==
    [n |-> (IF d < 0 THEN -1 ELSE 1) * (n \div Euclid[Abs(n), Abs(d)]),
     d |-> (IF d < 0 THEN -1 ELSE 1) * (d \div Euclid[Abs(n), Abs(d)])]

Rat(n, d) == Reduce[n, d]

RatInt(k) == [n |-> k, d |-> 1]

\* a/b + c/d through the least common denominator, which keeps the intermediate
\* numbers small
Lcm[b \in Nat, d \in Nat] == (b \div Euclid[b, d]) * d
RatSum[a \in Int, b \in Nat, c \in Int, d \in Nat] ==
    Reduce[a * (Lcm[b, d] \div b) + c * (Lcm[b, d] \div d), Lcm[b, d]]

RatAdd(x, y) == RatSum[x.n, x.d, y.n, y.d]
RatSub(x, y) == RatSum[x.n, x.d, -y.n, y.d]
RatLeq(x, y) == x.n * y.d <= y.n * x.d

-----------------------------------------------------------------------------
(* Order execution guard: src/src/exchange_binance.py                      *)
(* Quantities and prices are counted in thousandths (Scale decimal digits), *)
(* the notional and min_notional in millionths.                             *)

Scale == 3

RECURSIVE Pow10(_)
Pow10(k) == IF k = 0 THEN 1 ELSE 10 * Pow10(k - 1)

\* number of trailing decimal zeros of a positive count of thousandths, capped at Scale
RECURSIVE TrailingZeros(_, _)
TrailingZeros(s, k) ==
    IF k = Scale \/ s % 10 # 0 THEN k ELSE TrailingZeros(s \div 10, k + 1)

\* _decimals_from_step: the decimal places of the normalized step
\* (0.005 -> 3, 0.01 -> 2, 1 -> 0)
DecimalsFromStep(s) == Scale - TrailingZeros(s, 0)

\* Decimal(str(x)).quantize(Decimal(1).scaleb(-places), rounding=ROUND_DOWN):
\* x cut, toward zero, to `places` decimal places
QuantizeDown(x, places) ==
    LET m == Pow10(Scale - places)
    IN  IF x >= 0 THEN (x \div m) * m ELSE -(((-x) \div m) * m)

\* quantize_step, quantize_tick: the greatest multiple of the step that value reaches
\* (Decimal // truncates toward zero)
quantize_step(value, step) ==
    IF value >= 0 THEN (value \div step) * step ELSE -(((-value) \div step) * step)

quantize_tick(price, tick) == quantize_step(price, tick)

\* _post_quant_checks: "if price and ..." skips the notional test for a zero price
PostQuantChecks(qty, price, f) ==
    IF qty < f.min_qty THEN FALSE
    ELSE IF price # 0 /\ qty * price < f.min_notional THEN FALSE
    ELSE TRUE

\* a call to the exchange: what was sent (qty, price) and, beside it, the quantity and
\* price the caller asked for
NoCall ==
    [type |-> "none", side |-> "none", qty |-> 0, price |-> 0, req_qty |-> 0,
     req_price |-> 0]

\* _safe_call(self.client.create_order, **params) as order_limit_maker sees it end:
\* an order, BinanceAPIException -2010, or another exception (transient or not)
CreateOrderOutcomes == {"order", "would_cross_taker", "raised"}

\* bounds of the guard harness: the quantities and prices requested
MaxReqQty == 12
MaxReqPrice == 12

MinQtys == {1, 10}
StepSizes == {1, 5, 10}
MinNotionals == {20, 60}
TickSizes == {1, 5, 10}
OrderSides == {"BUY", "SELL"}

\* the head of order_limit_maker: qd, pd and whether they pass _post_quant_checks
LimitMakerParams(quantity, price, f) ==
    LET qd == QuantizeDown(quantity, DecimalsFromStep(f.step_size))
        pd == QuantizeDown(price, DecimalsFromStep(f.tick_size))
    IN  [qty |-> qd, price |-> pd, ok |-> PostQuantChecks(qd, pd, f)]

order_limit_maker(side, quantity, price) ==
    LET m == LimitMakerParams(quantity, price, filters)
    IN  IF ~m.ok
        THEN /\ gResult' = "ValueError"
             /\ gCall' = NoCall
        ELSE \E out \in CreateOrderOutcomes :
                /\ gCall' = [type |-> "LIMIT_MAKER", side |-> side, qty |-> m.qty,
                             price |-> m.price, req_qty |-> quantity,
                             req_price |-> price]
                /\ gResult' = IF out = "would_cross_taker" THEN "empty" ELSE out

order_market(side, quantity) ==
    LET f == filters
        q_places == DecimalsFromStep(f.step_size)
        qd == QuantizeDown(quantity, q_places)
    IN  IF qd < f.min_qty
        THEN /\ gResult' = "ValueError"
             /\ gCall' = NoCall
        ELSE \E out \in CreateOrderOutcomes \ {"would_cross_taker"} :
                /\ gCall' = [type |-> "MARKET", side |-> side, qty |-> qd, price |-> 0,
                             req_qty |-> quantity, req_price |-> 0]
                /\ gResult' = out

\* get_symbol_filters: fetched once, cached for the session
InitGuard ==
    /\ filters \in [min_qty : MinQtys, step_size : StepSizes,
                     min_notional : MinNotionals, tick_size : TickSizes]
    /\ gCall = NoCall
    /\ gResult = "none"

IdleGuard ==
    /\ filters = [min_qty |-> 1, step_size |-> 1, min_notional |-> 20, tick_size |-> 1]
    /\ gCall = NoCall
    /\ gResult = "none"

\* the wrapper keeps nothing but the filters from one call to the next: a call is made
\* once the one before has come back to its caller
OrderLimitMaker ==
    /\ gResult = "none"
    /\ \E side \in OrderSides, q \in 0..MaxReqQty, p \in 1..MaxReqPrice :
        order_limit_maker(side, q, p)
    /\ UNCHANGED <<filters, notGuard>>

OrderMarket ==
    /\ gResult = "none"
    /\ \E side \in OrderSides, q \in 0..MaxReqQty :
        order_market(side, q)
    /\ UNCHANGED <<filters, notGuard>>

\* the caller has the result (or the exception) of the call
OrderDone ==
    /\ gResult # "none"
    /\ gCall' = NoCall
    /\ gResult' = "none"
    /\ UNCHANGED <<filters, notGuard>>

-----------------------------------------------------------------------------
(* Guarded exchange call: BinanceWrapper._safe_call under tenacity's @retry *)

\* stop=stop_after_attempt(5)
StopAfterAttempt == 5

\* how one attempt of the underlying call can end: a result, or an exception
\* whose lower-cased message holds (or does not hold) one of the markers
TransientMarkers == {"timeout", "too many requests", "connection", "temporarily"}
PermanentErrors == {"insufficient balance", "would cross taker"}
AttemptOutcomes == {"ok"} \cup TransientMarkers \cup PermanentErrors

\* the except branch of _safe_call: TransientError is raised for these messages
IsTransientAlways(outcome) == outcome # "ok"
IsTransient(outcome) == outcome \in TransientMarkers

\* wait_exponential(multiplier=0.5, min=0.5, max=8) after attempt number k,
\* in half seconds: 0.5 * 2^(k-1) seconds, kept within [0.5, 8]
RECURSIVE Pow2(_)
Pow2(k) == IF k = 0 THEN 1 ELSE 2 * Pow2(k - 1)

WaitExponential(k) ==
    LET w == Pow2(k - 1)
    IN  IF w < 1 THEN 1 ELSE IF w > 16 THEN 16 ELSE w

InitRetry ==
    /\ rState = "idle"
    /\ rHistory = <<>>
    /\ rSlept = 0

IdleRetry == InitRetry

\* a caller invokes _safe_call(fn, ...)
SafeCallBegin ==
    /\ rState \in {"idle", "returned", "raised"}
    /\ rState' = "calling"
    /\ rHistory' = <<>>
    /\ rSlept' = 0
    /\ UNCHANGED notRetry

\* one attempt: fn(*args, **kwargs) returns or raises; retry=retry_if_exception_type(
\* TransientError), reraise=True
SafeCallAttempt ==
    /\ rState = "calling"
    /\ \E outcome \in AttemptOutcomes :
          /\ rHistory' = Append(rHistory, outcome)
          /\ rState' = IF outcome = "ok" THEN "returned"
                        ELSE IF ~IsTransient(outcome) THEN "raised"
                        ELSE IF Len(rHistory) + 1 >= StopAfterAttempt THEN "raised"
                        ELSE "waiting"
    /\ UNCHANGED <<rSlept, notRetry>>

\* the backoff sleep between two attempts
SafeCallBackoff ==
    /\ rState = "waiting"
    /\ rSlept' = rSlept + WaitExponential(Len(rHistory))
    /\ rState' = "calling"
    /\ UNCHANGED <<rHistory, notRetry>>

NextRetry == SafeCallBegin \/ SafeCallAttempt \/ SafeCallBackoff

-----------------------------------------------------------------------------
(* Percent strategy: src/src/strategy_percent.py                            *)
(* Prices are counted in price units (the tick size is a whole number of    *)
(* them), quantities in quantity units, money in price unit x quantity unit *)
(* (a fraction), rates in basis points.                                     *)

\* extra_fee_safety_bps / 10_000.0: the basis-point scale of every rate
Bps == 10000

\* Python's None where a price or a quantity is expected: no price is negative
None == -1

\* None where a fraction is expected
NoneRat == [n |-> None, d |-> 1]

\* Position(side="NONE"), ref_price None, balance initial_balance
NewStrategy(initial_balance) ==
    [side |-> "NONE", entry_price |-> None, qty |-> 0, ref_price |-> None,
     balance |-> initial_balance]

update_reference_price(s, price) ==
    IF s.ref_price = None THEN [s EXCEPT !.ref_price = price] ELSE s

\* the two fee rates target_sell_for_net and _net_profit_pct pick
FeeSide(c, maker_on_both) == IF maker_on_both THEN c.fee_maker ELSE c.fee_taker

\* _net_profit_pct(pb, ps): (sell_revenue - buy_cost) / buy_cost, as a fraction
net_profit_pct(c, pb, ps, maker_on_both) ==
    LET fee == FeeSide(c, maker_on_both)
        buy_cost == pb * (Bps + fee + c.extra_fee_safety_bps)
        sell_revenue == ps * (Bps - fee - c.extra_fee_safety_bps)
    IN  Rat(sell_revenue - buy_cost, buy_cost)

\* the rounding of target_sell_for_net: (Decimal(str(ps)) // tick) * tick, for ps = n/d
TickCeiling(n, d, tick) == ((n + d * tick - 1) \div (d * tick)) * tick
FloorToTick(n, d, tick) == (n \div (d * tick)) * tick

\* target_sell_for_net(pb, net_target): pb*(1+fee+extra)*(1+net_target)/(1-fee-extra),
\* floored to the tick
target_sell_for_net(c, pb, net_target, maker_on_both) ==
    LET fee == FeeSide(c, maker_on_both)
        k == Rat((Bps + fee + c.extra_fee_safety_bps) * (Bps + net_target),
                 (Bps - fee - c.extra_fee_safety_bps) * Bps)
    IN  FloorToTick(pb * k.n, k.d, c.tick_size)

\* the buy trigger of maybe_prices: change <= -min_change_pct, change = (price-ref)/ref
BuyTriggeredStrict(c, ref, price) == (price - ref) * Bps < -(c.min_change_pct * ref)
BuyTriggered(c, ref, price) == (price - ref) * Bps <= -(c.min_change_pct * ref)

\* the sell trigger of maybe_prices: change_from_entry >= max_change_pct
SellTriggered(c, entry, price) == (price - entry) * Bps >= c.max_change_pct * entry

\* maybe_prices(price) -> (state, reason, buy_price, sell_price), for the strategy s
\* after update_reference_price(price)
maybe_prices(s, c, price) ==
    IF s.side = "NONE"
    THEN IF BuyTriggered(c, s.ref_price, price)
         THEN [state |-> "WANT_BUY",
               buy_price |-> Rat(s.ref_price * (Bps - c.min_change_pct), Bps),
               sell_price |-> None]
         ELSE [state |-> "HOLD", buy_price |-> NoneRat, sell_price |-> None]
    ELSE IF s.side = "LONG"
    THEN IF SellTriggered(c, s.entry_price, price)
         THEN [state |-> "WANT_SELL", buy_price |-> NoneRat,
               sell_price |-> target_sell_for_net(c, s.entry_price, c.min_profit_pct_net, TRUE)]
         ELSE [state |-> "HOLD_LONG", buy_price |-> NoneRat,
               sell_price |-> target_sell_for_net(c, s.entry_price, c.min_profit_pct_net, TRUE)]
    ELSE [state |-> "HOLD", buy_price |-> NoneRat, sell_price |-> None]

\* on_buy_executed(price, qty, fee); fee is a fraction of money
on_buy_executed(s, price, qty, fee) ==
    [s EXCEPT !.side = "LONG", !.entry_price = price, !.qty = qty,
              !.balance = RatSub(s.balance, RatAdd(RatInt(price * qty), fee)),
              !.ref_price = price]

\* on_sell_executed(price, qty, fee) -> (pnl, balance); the cost is taken from the
\* position's own quantity
SellPnl(s, price, qty, fee) ==
    RatSub(RatInt(price * qty - s.entry_price * s.qty), fee)

on_sell_executed(s, price, qty, fee) ==
    [s EXCEPT !.side = "NONE", !.entry_price = None, !.qty = 0,
              !.balance = RatAdd(s.balance, RatSub(RatInt(price * qty), fee)),
              !.ref_price = price]

\* bounds of the strategy harness
MaxExec == 2

StratPrices == {9400, 9500, 10000, 10450}
StratQtys == {1, 2}
StratFees == {10}
NetTargets == {100, 1000}
MinChangePcts == {300, 500}
MaxChangePcts == {1000}
FeeRates == {0, 10}
SafetyBps == {10}
StratTicks == {1, 5}
InitialBalance == 100000

NoOut == [op |-> "none", price |-> 0, arg |-> 0, ret |-> None]

InitStrategy ==
    /\ cfg \in [min_change_pct : MinChangePcts, max_change_pct : MaxChangePcts,
                 min_profit_pct_net : {1000}, fee_maker : FeeRates,
                 fee_taker : FeeRates, extra_fee_safety_bps : SafetyBps,
                 tick_size : StratTicks]
    /\ cfg.fee_taker = cfg.fee_maker
    /\ strat = NewStrategy(RatInt(InitialBalance))
    /\ sOut = NoOut
    /\ sExec = 0

IdleStrategy ==
    /\ cfg = [min_change_pct |-> 500, max_change_pct |-> 1000, min_profit_pct_net |-> 1000,
              fee_maker |-> 10, fee_taker |-> 10, extra_fee_safety_bps |-> 10,
              tick_size |-> 1]
    /\ strat = NewStrategy(RatInt(InitialBalance))
    /\ sOut = NoOut
    /\ sExec = 0

StratMaybePrices ==
    \E price \in StratPrices :
        /\ strat' = update_reference_price(strat, price)
        /\ sOut' = [op |-> "maybe_prices", price |-> price, arg |-> 0,
                    ret |-> maybe_prices(strat', cfg, price)]
        /\ UNCHANGED <<cfg, sExec, notStrat>>

StratTargetSell ==
    \E pb \in StratPrices, r \in NetTargets :
        /\ sOut' = [op |-> "target_sell_for_net", price |-> pb, arg |-> r,
                    ret |-> target_sell_for_net(cfg, pb, r, TRUE)]
        /\ UNCHANGED <<cfg, strat, sExec, notStrat>>

StratOnBuy ==
    \E price \in StratPrices, qty \in StratQtys, fee \in StratFees :
        /\ sExec < MaxExec
        /\ sExec' = sExec + 1
        /\ strat' = on_buy_executed(strat, price, qty, RatInt(fee))
        /\ sOut' = [op |-> "on_buy_executed", price |-> price, arg |-> qty, ret |-> None]
        /\ UNCHANGED <<cfg, notStrat>>

\* on a strategy without a position entry_price is None and the call raises TypeError
StratOnSell ==
    \E price \in StratPrices, qty \in StratQtys, fee \in StratFees :
        /\ strat.side = "LONG"
        /\ sExec < MaxExec
        /\ sExec' = sExec + 1
        /\ strat' = on_sell_executed(strat, price, qty, RatInt(fee))
        /\ sOut' = [op |-> "on_sell_executed", price |-> price, arg |-> qty,
                    ret |-> <<SellPnl(strat, price, qty, RatInt(fee)), strat'.balance>>]
        /\ UNCHANGED <<cfg, notStrat>>

NextStrategy == StratMaybePrices \/ StratTargetSell \/ StratOnBuy \/ StratOnSell

-----------------------------------------------------------------------------
(* Control loop: src/src/main.py, mode LIVE.                                *)
(* Quantities and prices are counted in thousandths as in the guard, money  *)
(* in millionths.  Time is counted in sleeps of the loop: the loop compares *)
(* the age of an order with the TTL and the time since the last rotation    *)
(* with the rotation period, so the model keeps these ages, which saturate  *)
(* above their thresholds.  A client order id is BOT_TAG_<side>_<now_ts()>: *)
(* ids made in different ticks differ in their time stamp, and the model    *)
(* numbers them, an id being one no order, reference or trade row carries.  *)

\* config.py: base_risk_frac 0.25, rearm_threshold_pct 0.015, in basis points
RiskFracBps == 2500
RearmBps == 150

\* order_ttl_seconds, switch_every_minutes (in sleeps) and switch_every_trades
Ttl == 1
SwitchAfter == 2
SwitchEveryTrades == 1

\* bounds of the environment of the loop
MaxFaults == 1
MaxFills == 2

LoopPrices == {9400, 10500}
FreeQuotes == {0, 400000}
LoopInitialBalance == 400000

\* the symbol filters the loop caches at start
LoopFilters == [min_qty |-> 10, step_size |-> 10, min_notional |-> 50000, tick_size |-> 10]

\* the same symbol, or one whose minimum notional equals the notional the loop sizes
\* its buys to (base_risk_frac of the free balance)
LoopFilterChoices == {LoopFilters, [LoopFilters EXCEPT !.min_notional = 100000]}

\* a symbol with a step of one thousandth: the quantity of a second buy, sized at the
\* higher reference price a sell leaves, is still above the minimum
FineFilters == [LoopFilters EXCEPT !.min_qty = 1, !.step_size = 1]

\* the ladder of ParamManager for num_configs = 2: the ends of min_pct_range and
\* max_pct_range
LoopConfigs ==
    [i \in {1, 2} |-> IF i = 1 THEN [min_change_pct |-> 300, max_change_pct |-> 1000]
                      ELSE [min_change_pct |-> 1000, max_change_pct |-> 1400]]

\* StrategyConfig(...) of main for the active configuration i
LoopStrategyConfig(i) ==
    [min_change_pct |-> LoopConfigs[i].min_change_pct,
     max_change_pct |-> LoopConfigs[i].max_change_pct,
     min_profit_pct_net |-> 1000, fee_maker |-> 10, fee_taker |-> 10,
     extra_fee_safety_bps |-> 10, tick_size |-> LoopFilters.tick_size]

\* open_*_cid = open_*_price = open_*_ts = None
NoOpen == [cid |-> None, price |-> None, age |-> 0]

\* the locals of a tick before its first statement; err is the exception that
\* except Exception caught (e of line 266)
NoTick == [price |-> None, state |-> "none", buy_price |-> NoneRat, bst |-> "none",
           sst |-> "none", err |-> "none"]

LiveStatuses == {"NEW", "PARTIALLY_FILLED"}
EndStatuses == {"CANCELED", "REJECTED"}

\* the ids some order, reference or trade row carries
UsedCids ==
    (DOMAIN orders \cup {ob.cid, os.cid} \cup {trades[i].cid : i \in 1..Len(trades)})
        \ {None}

\* client_id = f"{BOT_TAG}_<side>_{now_ts()}": an id not used before
ClientIdReused(used) == IF os.cid # None THEN os.cid ELSE 1
ClientId(used) == CHOOSE c \in 1..(Cardinality(used) + 1) : c \notin used

\* a lookup that reports an order the exchange does not hold as resting
StatusOfPhantomRests(cid) ==
    IF cid \in DOMAIN orders THEN orders[cid].status
    ELSE IF cid = None THEN "None" ELSE "NEW"

\* get_order_status_by_client: the status of the order, "None" when the lookup raised
StatusOf(cid) == IF cid \in DOMAIN orders THEN orders[cid].status ELSE "None"

\* what the status lookup of a tick can return: the status, or "None" because the
\* request failed (one injected fault)
StatusReads(cid) ==
    {[st |-> StatusOf(cid), fault |-> 0]}
        \cup (IF faults > 0 /\ cid # None THEN {[st |-> "None", fault |-> 1]} ELSE {})

\* how ex.order_limit_maker(side, qty, price, cid) can end with `budget` faults left
PlaceResults(quantity, price, budget) ==
    LET m == LimitMakerParams(quantity, price, filters)
    IN  IF ~m.ok THEN {[res |-> "ValueError", fault |-> 0, qty |-> m.qty, price |-> m.price]}
        ELSE {[res |-> r, fault |-> 0, qty |-> m.qty, price |-> m.price] : r \in {"order", "empty"}}
             \cup (IF budget > 0
                   THEN {[res |-> "raised", fault |-> 1, qty |-> m.qty, price |-> m.price]}
                   ELSE {})

\* the order the exchange holds after an accepted placement
NewOrder(side, out) == [side |-> side, qty |-> out.qty, price |-> out.price, status |-> "NEW"]

\* insert_trade(side, price, qty, fee, pnl, balance_after, config_id, ..., client_order_id)
insert_trade(side, price, qty, fee, pnl, balance_after, cid) ==
    Append(trades, [side |-> side, price |-> price, qty |-> qty, fee |-> fee, pnl |-> pnl,
                    balance_after |-> balance_after, config_id |-> config_id, cid |-> cid])

\* exec_px * ex_qty * fees["maker"]
MakerFee(price, qty) == Rat(price * qty * cfg.fee_maker, Bps)

\* the deviation and TTL test that re-arms a resting order
NeedsRearm(o, qprice) ==
    \/ o.price # None /\ o.price # 0 /\ Abs(qprice - o.price) * Bps >= RearmBps * o.price
    \/ o.age > Ttl

Older(o) == IF o.cid = None \/ o.age > Ttl THEN o ELSE [o EXCEPT !.age = o.age + 1]

\* the state when the loop is entered on a first start, for a symbol whose filters
\* are among `choices`: no trades, so nothing resumed
InitLoopOn(choices) ==
    /\ pc = "head"
    /\ tk = NoTick
    /\ ob = NoOpen
    /\ os = NoOpen
    /\ tss = 0
    /\ swAge = 0
    /\ config_id \in DOMAIN LoopConfigs
    /\ cfg = LoopStrategyConfig(config_id)
    /\ strat = NewStrategy(RatInt(LoopInitialBalance))
    /\ filters \in choices
    /\ trades = <<>>
    /\ orders = <<>>
    /\ faults = MaxFaults
    /\ nFills = 0
    /\ unrec = {}
    /\ interrupted = FALSE

InitLoop == InitLoopOn(LoopFilterChoices)

InitLoopFine == InitLoopOn({FineFilters})

IdleLoop ==
    /\ pc = "off"
    /\ tk = NoTick
    /\ ob = NoOpen
    /\ os = NoOpen
    /\ tss = 0
    /\ swAge = 0
    /\ config_id = 1
    /\ trades = <<>>
    /\ orders = <<>>
    /\ faults = 0
    /\ nFills = 0
    /\ unrec = {}
    /\ interrupted = FALSE

\* lines 137-139: price = ex.get_price(...); strat.maybe_prices(price)
TickHead ==
    /\ pc = "head"
    /\ \E price \in LoopPrices :
        LET s1 == update_reference_price(strat, price)
            out == maybe_prices(s1, cfg, price)
        IN  /\ strat' = s1
            /\ tk' = [NoTick EXCEPT !.price = price, !.state = out.state,
                                    !.buy_price = out.buy_price]
    /\ pc' = "buy"
    /\ UNCHANGED <<cfg, ob, os, tss, swAge, config_id, trades, orders, faults, nFills,
                   unrec, interrupted, notLoop>>

\* a call of the tick raises (the exchange after its retries, or the store): the tick
\* is left at that statement
Raise ==
    /\ faults > 0
    /\ faults' = faults - 1
    /\ tk' = [tk EXCEPT !.err = "raised"]
    /\ pc' = "except"

HeadFails ==
    /\ pc = "head"
    /\ Raise
    /\ UNCHANGED <<cfg, strat, ob, os, tss, swAge, config_id, trades, orders, nFills,
                   unrec, interrupted, notLoop>>

\* line 144
WantBuy == tk.state = "WANT_BUY" /\ strat.side = "NONE"

\* lines 146-151: the size and the price of the buy for a free quote balance fq
BuySizing(fq) ==
    LET notional == Rat(fq * RiskFracBps, Bps)
        bp == tk.buy_price
        qty == ((notional.n * bp.d) \div (notional.d * bp.n * filters.step_size))
                    * filters.step_size
    IN  [qty |-> qty,
         qprice |-> FloorToTick(bp.n, bp.d, filters.tick_size),
         ok |-> RatLeq(RatInt(filters.min_notional), notional) /\ qty >= filters.min_qty]

BuySkip ==
    /\ pc = "buy"
    /\ ~WantBuy
    /\ pc' = "sell"
    /\ UNCHANGED <<cfg, strat, tk, ob, os, tss, swAge, config_id, trades, orders, faults,
                   nFills, unrec, interrupted, notLoop>>

\* line 145: ex.get_asset_balance raises
BuyBalanceFails ==
    /\ pc = "buy"
    /\ WantBuy
    /\ Raise
    /\ UNCHANGED <<cfg, strat, ob, os, tss, swAge, config_id, trades, orders, nFills,
                   unrec, interrupted, notLoop>>

\* lines 147, 150: the notional or the quantity is under the minimum
BuyTooSmall ==
    /\ pc = "buy"
    /\ WantBuy
    /\ \E fq \in FreeQuotes : ~BuySizing(fq).ok
    /\ pc' = "sell"
    /\ UNCHANGED <<cfg, strat, tk, ob, os, tss, swAge, config_id, trades, orders, faults,
                   nFills, unrec, interrupted, notLoop>>

\* how the insert_trade that follows an execution callback can end
InsertResults == {"ok", "interrupted"} \cup (IF faults > 0 THEN {"raised"} ELSE {})

\* lines 156-166: the tracked buy order is FILLED
BuyFilled ==
    /\ pc = "buy"
    /\ WantBuy
    /\ \E fq \in FreeQuotes : BuySizing(fq).ok
    /\ ob.cid # None
    /\ StatusOf(ob.cid) = "FILLED"
    /\ LET o == orders[ob.cid]
           fee == MakerFee(o.price, o.qty)
           s1 == on_buy_executed(strat, o.price, o.qty, fee)
       IN  /\ strat' = s1
           /\ \E ins \in InsertResults :
                /\ tk' = [tk EXCEPT !.bst = "FILLED",
                                    !.err = IF ins = "raised" THEN "raised" ELSE "none"]
                /\ trades' = IF ins = "ok"
                             THEN insert_trade("BUY", o.price, o.qty, fee, RatInt(0),
                                               s1.balance, ob.cid)
                             ELSE trades
                /\ ob' = IF ins = "ok" THEN NoOpen ELSE ob
                /\ unrec' = IF ins = "ok" THEN unrec \ {ob.cid} ELSE unrec \cup {ob.cid}
                /\ faults' = IF ins = "raised" THEN faults - 1 ELSE faults
                /\ pc' = IF ins = "ok" THEN "sell"
                         ELSE IF ins = "raised" THEN "except" ELSE "stopped"
                /\ interrupted' = (ins = "interrupted")
    /\ UNCHANGED <<cfg, os, tss, swAge, config_id, orders, nFills, notLoop>>

\* lines 167-172: the resting buy order deviates or is older than the TTL; the
\* wrapper has no cancel_order_by_client, so the call raises AttributeError
BuyRearm ==
    /\ pc = "buy"
    /\ WantBuy
    /\ \E fq \in FreeQuotes :
        /\ BuySizing(fq).ok
        /\ NeedsRearm(ob, BuySizing(fq).qprice)
    /\ ob.cid # None
    /\ StatusOf(ob.cid) \in LiveStatuses
    /\ tk' = [tk EXCEPT !.bst = StatusOf(ob.cid), !.err = "AttributeError"]
    /\ pc' = "except"
    /\ UNCHANGED <<cfg, strat, ob, os, tss, swAge, config_id, trades, orders, faults,
                   nFills, unrec, interrupted, notLoop>>

\* lines 173-174: the resting buy order is left alone
BuyRest ==
    /\ pc = "buy"
    /\ WantBuy
    /\ \E fq \in FreeQuotes :
        /\ BuySizing(fq).ok
        /\ ~NeedsRearm(ob, BuySizing(fq).qprice)
    /\ ob.cid # None
    /\ StatusOf(ob.cid) \in LiveStatuses
    /\ tk' = [tk EXCEPT !.bst = StatusOf(ob.cid)]
    /\ pc' = "sell"
    /\ UNCHANGED <<cfg, strat, ob, os, tss, swAge, config_id, trades, orders, faults,
                   nFills, unrec, interrupted, notLoop>>

\* lines 175-185: no buy order is tracked, or the tracked one is neither FILLED nor
\* resting (or its lookup failed): the reference is dropped and a buy is placed
BuyPlace ==
    /\ pc = "buy"
    /\ WantBuy
    /\ \E fq \in FreeQuotes, rd \in StatusReads(ob.cid) :
        LET z == BuySizing(fq)
            cid == ClientId(UsedCids)
        IN  /\ z.ok
            /\ rd.st \notin LiveStatuses \cup {"FILLED"}
            /\ \E out \in PlaceResults(z.qty, z.qprice, faults - rd.fault) :
                /\ tk' = [tk EXCEPT !.bst = IF ob.cid = None THEN "none" ELSE rd.st,
                                    !.err = IF out.res \in {"ValueError", "raised"}
                                            THEN out.res ELSE "none"]
                /\ faults' = faults - rd.fault - out.fault
                /\ IF out.res \in {"ValueError", "raised"}
                   THEN /\ ob' = NoOpen
                        /\ pc' = "except"
                        /\ orders' = orders
                   ELSE /\ ob' = [cid |-> cid, price |-> z.qprice, age |-> 0]
                        /\ pc' = "sell"
                        /\ orders' = IF out.res = "order"
                                     THEN orders @@ (cid :> NewOrder("BUY", out))
                                     ELSE orders
    /\ UNCHANGED <<cfg, strat, os, tss, swAge, config_id, trades, nFills, unrec,
                   interrupted, notLoop>>

\* lines 198-199: the sell target of the position, on the tick grid
SellQPrice ==
    FloorToTick(target_sell_for_net(cfg, strat.entry_price, cfg.min_profit_pct_net, TRUE),
                1, filters.tick_size)

\* line 197: no position, no sell logic
SellSkip ==
    /\ pc = "sell"
    /\ strat.side # "LONG"
    /\ pc' = "rotate"
    /\ UNCHANGED <<cfg, strat, tk, ob, os, tss, swAge, config_id, trades, orders, faults,
                   nFills, unrec, interrupted, notLoop>>

\* lines 204-214: the tracked sell order is FILLED
SellFilled ==
    /\ pc = "sell"
    /\ strat.side = "LONG"
    /\ os.cid # None
    /\ StatusOf(os.cid) = "FILLED"
    /\ LET o == orders[os.cid]
           fee == MakerFee(o.price, o.qty)
           pnl == SellPnl(strat, o.price, o.qty, fee)
           s1 == on_sell_executed(strat, o.price, o.qty, fee)
       IN  /\ strat' = s1
           /\ \E ins \in InsertResults :
                /\ tk' = [tk EXCEPT !.sst = "FILLED",
                                    !.err = IF ins = "raised" THEN "raised" ELSE "none"]
                /\ trades' = IF ins = "ok"
                             THEN insert_trade("SELL", o.price, o.qty, fee, pnl,
                                               s1.balance, os.cid)
                             ELSE trades
                /\ tss' = IF ins = "ok" THEN tss + 1 ELSE tss
                /\ os' = IF ins = "ok" THEN NoOpen ELSE os
                /\ unrec' = IF ins = "ok" THEN unrec \ {os.cid} ELSE unrec \cup {os.cid}
                /\ faults' = IF ins = "raised" THEN faults - 1 ELSE faults
                /\ pc' = IF ins = "ok" THEN "rotate"
                         ELSE IF ins = "raised" THEN "except" ELSE "stopped"
                /\ interrupted' = (ins = "interrupted")
    /\ UNCHANGED <<cfg, ob, swAge, config_id, orders, nFills, notLoop>>

\* lines 215-219: the resting sell order deviates or is older than the TTL; the
\* wrapper has no cancel_order_by_client, so the call raises AttributeError
SellRearm ==
    /\ pc = "sell"
    /\ strat.side = "LONG"
    /\ os.cid # None
    /\ StatusOf(os.cid) \in LiveStatuses
    /\ NeedsRearm(os, SellQPrice)
    /\ tk' = [tk EXCEPT !.sst = StatusOf(os.cid), !.err = "AttributeError"]
    /\ pc' = "except"
    /\ UNCHANGED <<cfg, strat, ob, os, tss, swAge, config_id, trades, orders, faults,
                   nFills, unrec, interrupted, notLoop>>

\* lines 220-221: the resting sell order is left alone
SellRest ==
    /\ pc = "sell"
    /\ strat.side = "LONG"
    /\ os.cid # None
    /\ StatusOf(os.cid) \in LiveStatuses
    /\ ~NeedsRearm(os, SellQPrice)
    /\ tk' = [tk EXCEPT !.sst = StatusOf(os.cid)]
    /\ pc' = "rotate"
    /\ UNCHANGED <<cfg, strat, ob, os, tss, swAge, config_id, trades, orders, faults,
                   nFills, unrec, interrupted, notLoop>>

\* lines 222-231: no sell order is tracked, or the tracked one is CANCELED, REJECTED
\* or unknown: the reference is dropped and a sell of the position is placed
SellPlace ==
    /\ pc = "sell"
    /\ strat.side = "LONG"
    /\ \E rd \in StatusReads(os.cid) :
        LET cid == ClientId(UsedCids)
        IN  /\ rd.st \notin LiveStatuses \cup {"FILLED"}
            /\ IF strat.qty > 0
               THEN \E out \in PlaceResults(strat.qty, SellQPrice, faults - rd.fault) :
                        /\ tk' = [tk EXCEPT
                                    !.sst = IF os.cid = None THEN "none" ELSE rd.st,
                                    !.err = IF out.res \in {"ValueError", "raised"}
                                            THEN out.res ELSE "none"]
                        /\ faults' = faults - rd.fault - out.fault
                        /\ IF out.res \in {"ValueError", "raised"}
                           THEN /\ os' = NoOpen
                                /\ pc' = "except"
                                /\ orders' = orders
                           ELSE /\ os' = [cid |-> cid, price |-> SellQPrice, age |-> 0]
                                /\ pc' = "rotate"
                                /\ orders' = IF out.res = "order"
                                             THEN orders @@ (cid :> NewOrder("SELL", out))
                                             ELSE orders
               ELSE /\ tk' = [tk EXCEPT !.sst = IF os.cid = None THEN "none" ELSE rd.st]
                    /\ faults' = faults - rd.fault
                    /\ os' = NoOpen
                    /\ pc' = "rotate"
                    /\ orders' = orders
    /\ UNCHANGED <<cfg, strat, ob, tss, swAge, config_id, trades, nFills, unrec,
                   interrupted, notLoop>>

\* line 246
RotateDue == tss >= SwitchEveryTrades \/ swAge >= SwitchAfter

RotateSkip ==
    /\ pc = "rotate"
    /\ ~RotateDue
    /\ pc' = "stats"
    /\ UNCHANGED <<cfg, strat, tk, ob, os, tss, swAge, config_id, trades, orders, faults,
                   nFills, unrec, interrupted, notLoop>>

\* lines 247-253: pm.choose_active_config() explores with probability exploration_eps,
\* so any configuration of the ladder can come back
Rotate ==
    /\ pc = "rotate"
    /\ RotateDue
    /\ \E i \in DOMAIN LoopConfigs :
        /\ cfg' = [cfg EXCEPT !.min_change_pct = LoopConfigs[i].min_change_pct,
                              !.max_change_pct = LoopConfigs[i].max_change_pct]
        /\ config_id' = i
    /\ tss' = 0
    /\ swAge' = 0
    /\ pc' = "stats"
    /\ UNCHANGED <<strat, tk, ob, os, trades, orders, faults, nFills, unrec, interrupted,
                   notLoop>>

\* line 247: the read of the trades behind choose_active_config raises
RotateFails ==
    /\ pc = "rotate"
    /\ RotateDue
    /\ Raise
    /\ UNCHANGED <<cfg, strat, ob, os, tss, swAge, config_id, trades, orders, nFills,
                   unrec, interrupted, notLoop>>

\* lines 258-259: get_stats()
Stats ==
    /\ pc = "stats"
    /\ pc' = "sleep"
    /\ UNCHANGED <<cfg, strat, tk, ob, os, tss, swAge, config_id, trades, orders, faults,
                   nFills, unrec, interrupted, notLoop>>

StatsFails ==
    /\ pc = "stats"
    /\ Raise
    /\ UNCHANGED <<cfg, strat, ob, os, tss, swAge, config_id, trades, orders, nFills,
                   unrec, interrupted, notLoop>>

\* the exchange keeps every order; the loop can only look up the ones it references,
\* so the model forgets the ended orders it references no more
Kept == {c \in DOMAIN orders : orders[c].status \in LiveStatuses \/ c \in {ob.cid, os.cid}}

\* time passes for one sleep
Elapse ==
    /\ ob' = Older(ob)
    /\ os' = Older(os)
    /\ swAge' = IF swAge < SwitchAfter THEN swAge + 1 ELSE swAge
    /\ orders' = [c \in Kept |-> orders[c]]
    /\ tk' = NoTick
    /\ pc' = "head"

\* line 261: time.sleep(cfg.poll_interval_seconds), then the next tick
Sleep ==
    /\ pc = "sleep"
    /\ Elapse
    /\ UNCHANGED <<cfg, strat, tss, config_id, trades, faults, nFills, unrec, interrupted,
                   notLoop>>

\* lines 266-268: except Exception: print, time.sleep(5), then the next tick
ExceptStops ==
    /\ pc = "except"
    /\ pc' = "stopped"
    /\ UNCHANGED <<cfg, strat, tk, ob, os, tss, swAge, config_id, trades, orders, faults,
                   nFills, unrec, interrupted, notLoop>>

ExceptSleep ==
    /\ pc = "except"
    /\ Elapse
    /\ UNCHANGED <<cfg, strat, tss, config_id, trades, faults, nFills, unrec, interrupted,
                   notLoop>>

\* lines 263-265: KeyboardInterrupt ends the loop wherever it stands
Interrupt ==
    /\ pc \in {"head", "buy", "sell", "rotate", "stats", "sleep", "except"}
    /\ pc' = "stopped"
    /\ interrupted' = TRUE
    /\ UNCHANGED <<cfg, strat, tk, ob, os, tss, swAge, config_id, trades, orders, faults,
                   nFills, unrec, notLoop>>

\* the exchange: between two ticks an order of the bot fills, fills in part or ends.
\* The loop looks an order up once per tick, so a change during a tick is seen as
\* one before or after it.
ExchangeFills ==
    /\ pc = "head"
    /\ nFills < MaxFills
    /\ \E c \in DOMAIN orders :
        /\ orders[c].status \in LiveStatuses
        /\ orders' = [orders EXCEPT ![c].status = "FILLED"]
    /\ nFills' = nFills + 1
    /\ UNCHANGED <<cfg, strat, pc, tk, ob, os, tss, swAge, config_id, trades, faults,
                   unrec, interrupted, notLoop>>

ExchangeFillsPart ==
    /\ pc = "head"
    /\ \E c \in DOMAIN orders :
        /\ orders[c].status = "NEW"
        /\ orders' = [orders EXCEPT ![c].status = "PARTIALLY_FILLED"]
    /\ UNCHANGED <<cfg, strat, pc, tk, ob, os, tss, swAge, config_id, trades, faults,
                   nFills, unrec, interrupted, notLoop>>

ExchangeEnds ==
    /\ pc = "head"
    /\ \E c \in DOMAIN orders, st \in EndStatuses :
        /\ orders[c].status \in LiveStatuses
        /\ orders' = [orders EXCEPT ![c].status = st]
    /\ UNCHANGED <<cfg, strat, pc, tk, ob, os, tss, swAge, config_id, trades, faults,
                   nFills, unrec, interrupted, notLoop>>

\* the steps of the loop itself
LoopStep ==
    \/ TickHead \/ HeadFails
    \/ BuySkip \/ BuyBalanceFails \/ BuyTooSmall \/ BuyFilled \/ BuyRearm \/ BuyRest
    \/ BuyPlace
    \/ SellSkip \/ SellFilled \/ SellRearm \/ SellRest \/ SellPlace
    \/ RotateSkip \/ Rotate \/ RotateFails
    \/ Stats \/ StatsFails
    \/ Sleep \/ ExceptSleep

Next == LoopStep \/ Interrupt \/ ExchangeFills \/ ExchangeFillsPart \/ ExchangeEnds

-----------------------------------------------------------------------------
(* Lot ledger: src/src/db.py *)

NULL == "NULL"

\* bounds of the ledger harness
MaxLots == 2
MaxQty == 3
MaxOps == 5

LotPrices == {100, 103}
LotQtys == {-1, 1, 2}
LotTargets == {110}
SellPrices == {111}
SellCids == {"s1", "s2"}

LotIds == 1..MaxLots

\* INSERT INTO lots(buy_price, qty_remaining, target_price, status) VALUES (?,?,?,'OPEN')
NewLot(buy_price, qty, target_price) ==
    [buy_price |-> RatInt(buy_price), qty_remaining |-> qty,
     target_price |-> target_price, sell_client_id |-> NULL, status |-> "OPEN"]

insert_lot(buy_price, qty, target_price) ==
    /\ Len(lots) < MaxLots
    /\ lots' = Append(lots, NewLot(buy_price, qty, target_price))
    /\ lastOp' = [op |-> "insert_lot", id |-> Len(lots) + 1, buy_price |-> buy_price,
                   qty |-> qty]

\* UPDATE lots SET sell_client_id=?, target_price=?, status='SELL_PLACED' WHERE id=?
SetLotSellRow(row, client_id, price) ==
    [row EXCEPT !.sell_client_id = client_id, !.target_price = price,
                !.status = "SELL_PLACED"]

set_lot_sell(lot_id, client_id, price) ==
    /\ lots' = [i \in DOMAIN lots |->
                  IF i = lot_id THEN SetLotSellRow(lots[i], client_id, price)
                  ELSE lots[i]]
    /\ lastOp' = [op |-> "set_lot_sell", id |-> lot_id, buy_price |-> 0, qty |-> 0]

\* UPDATE lots SET status='CLOSED' WHERE id=?
CloseLotRow(row) == [row EXCEPT !.status = "CLOSED"]

close_lot(lot_id) ==
    /\ lots' = [i \in DOMAIN lots |->
                  IF i = lot_id THEN CloseLotRow(lots[i]) ELSE lots[i]]
    /\ lastOp' = [op |-> "close_lot", id |-> lot_id, buy_price |-> 0, qty |-> 0]

\* WHERE status='OPEN' AND (sell_client_id IS NULL OR sell_client_id='')
IsAccumulator(row) == row.status = "OPEN" /\ row.sell_client_id = NULL

\* the quantity of the buy alone, the lot's own quantity dropped
MergedQtyLast(q, qty) == IF qty <= 0 THEN 0 ELSE qty

\* the merge branch of upsert_accum_lot
MergedQty(q, qty) == IF q + qty <= 0 THEN 0 ELSE q + qty

\* the plain mean of the two prices, the quantities left out
MergedPriceUnweighted(bp, q, buy_price, qty) ==
    IF MergedQty(q, qty) > 0
    THEN Rat(bp.n + buy_price * bp.d, 2 * bp.d)
    ELSE RatInt(buy_price)

MergedPrice(bp, q, buy_price, qty) ==
    IF MergedQty(q, qty) > 0
    THEN Rat(bp.n * q + buy_price * qty * bp.d, bp.d * MergedQty(q, qty))
    ELSE RatInt(buy_price)

MergeRow(row, buy_price, qty, target_price) ==
    [row EXCEPT !.buy_price = MergedPrice(row.buy_price, row.qty_remaining, buy_price, qty),
                !.qty_remaining = MergedQty(row.qty_remaining, qty),
                !.target_price = target_price]

\* SELECT ... LIMIT 1 has no ORDER BY: any matching row may be the one returned
upsert_accum_lot(buy_price, qty, target_price) ==
    IF \E i \in DOMAIN lots : IsAccumulator(lots[i])
    THEN \E i \in DOMAIN lots :
            /\ IsAccumulator(lots[i])
            /\ lots[i].qty_remaining + qty <= MaxQty
            /\ lots' = [lots EXCEPT ![i] = MergeRow(lots[i], buy_price, qty, target_price)]
            /\ lastOp' = [op |-> "upsert_merge", id |-> i, buy_price |-> buy_price,
                           qty |-> qty]
    ELSE /\ Len(lots) < MaxLots
         /\ lots' = Append(lots, NewLot(buy_price, qty, target_price))
         /\ lastOp' = [op |-> "upsert_insert", id |-> Len(lots) + 1,
                        buy_price |-> buy_price, qty |-> qty]

InitLedger ==
    /\ lots = <<>>
    /\ lastOp = [op |-> "none", id |-> 0, buy_price |-> 0, qty |-> 0]
    /\ nOps = 0

Counted == nOps < MaxOps /\ nOps' = nOps + 1 /\ UNCHANGED notLedger

InsertLot ==
    \E p \in LotPrices, q \in LotQtys, t \in LotTargets : Counted /\ insert_lot(p, q, t)

UpsertAccumLot ==
    \E p \in LotPrices, q \in LotQtys, t \in LotTargets : Counted /\ upsert_accum_lot(p, q, t)

SetLotSell ==
    \E i \in LotIds, c \in SellCids, p \in SellPrices : Counted /\ set_lot_sell(i, c, p)

CloseLot ==
    \E i \in LotIds : Counted /\ close_lot(i)

NextLedger == InsertLot \/ UpsertAccumLot \/ SetLotSell \/ CloseLot

\* upsert_accum_lot as a function of the table: the tables it can leave
UpsertResults(rows, buy_price, qty, target_price) ==
    IF \E i \in DOMAIN rows : IsAccumulator(rows[i])
    THEN {[rows EXCEPT ![i] = MergeRow(rows[i], buy_price, qty, target_price)] :
            i \in {j \in DOMAIN rows : IsAccumulator(rows[j])}}
    ELSE {Append(rows, NewLot(buy_price, qty, target_price))}

\* two buys taken in either order: prices and positive quantities, and the ledgers
\* without an open lot they are merged into
MergePrices == {100, 103, 107}
MergeQtys == {1, 2, 3}
MergeLedgers ==
    {<<>>,
     <<[NewLot(100, 0, 110) EXCEPT !.status = "CLOSED", !.sell_client_id = "s1"]>>,
     <<[NewLot(100, 2, 110) EXCEPT !.status = "SELL_PLACED", !.sell_client_id = "s1"]>>}

NoMerge == [p1 |-> 0, q1 |-> 0, p2 |-> 0, q2 |-> 0, fwd |-> <<>>, rev |-> <<>>, n |-> 0]

InitMerge ==
    merge \in {[p1 |-> p1, q1 |-> q1, p2 |-> p2, q2 |-> q2, fwd |-> l, rev |-> l, n |-> 0] :
                 p1 \in MergePrices, q1 \in MergeQtys, p2 \in MergePrices,
                 q2 \in MergeQtys, l \in MergeLedgers}

IdleMerge == merge = NoMerge

\* the next buy goes into both ledgers: (p1, q1) then (p2, q2) into fwd, the opposite
\* order into rev
MergeBuy ==
    /\ merge.n < 2
    /\ LET a == IF merge.n = 0 THEN <<merge.p1, merge.q1>> ELSE <<merge.p2, merge.q2>>
           b == IF merge.n = 0 THEN <<merge.p2, merge.q2>> ELSE <<merge.p1, merge.q1>>
       IN  \E f \in UpsertResults(merge.fwd, a[1], a[2], 110),
              r \in UpsertResults(merge.rev, b[1], b[2], 110) :
                merge' = [merge EXCEPT !.fwd = f, !.rev = r, !.n = merge.n + 1]
    /\ UNCHANGED notMerge

-----------------------------------------------------------------------------
(* Bandit: src/src/ai_bandit.py and the tables it reads (src/src/db.py) *)

\* config.json, section bandit: num_configs and exploration_eps (in hundredths) as
\* the harness draws them; the two ranges are the defaults, in basis points
NumConfigsValues == {0, 1, 2, 3}
EpsValues == {0, 25, 100}
MinPctRange == <<300, 1000>>
MaxPctRange == <<1000, 1400>>

\* _score_config: the number of trades from which the average counts in full
BonusTrades == 20

\* the trades earlier runs left behind, per configuration: how many and with what pnl
HistCounts == {1, 20, 21}
HistPnls == {-1, 2}
\* the pnl of a row written while the harness runs (a BUY row carries pnl 0.0)
RecordPnls == {-1, 0, 1, 2}
\* rows are added one by one only to a table shorter than this
MaxBanditTrades == 2
\* base_risk_frac of the config.json of the earlier runs, in basis points
OldRiskFracBps == 1000

NoPm == [built |-> FALSE, num_configs |-> 0, exploration_eps |-> 0]
NoChoice == [res |-> "none", id |-> None, reason |-> "none"]

\* INSERT INTO configs (...): the id is the next row id (rows are never deleted)
insert_config(rows, min_change_pct, max_change_pct, trade_qty_frac) ==
    Append(rows, [id |-> Len(rows) + 1, min_change_pct |-> min_change_pct,
                  max_change_pct |-> max_change_pct, trade_qty_frac |-> trade_qty_frac])

\* SELECT id, ... FROM configs: the rows in row id order
get_all_configs == configs

\* the interpolation with the number of configurations as the divisor
InterpolateOverCount(low, high, i, steps) ==
    Rat(low * (steps + 1) + (high - low) * i, steps + 1)

\* low + (high - low) * i / steps
Interpolate(low, high, i, steps) == Rat(low * steps + (high - low) * i, steps)

\* the first k rows that the loop of _ensure_configs_exist inserts into an empty table
Ladder(num_configs, k, base_risk_frac) ==
    LET steps == IF num_configs - 1 > 1 THEN num_configs - 1 ELSE 1
        l[i \in 0..k] ==
            IF i = 0 THEN <<>>
            ELSE insert_config(l[i - 1],
                    Interpolate(MinPctRange[1], MinPctRange[2], i - 1, steps),
                    Interpolate(MaxPctRange[1], MaxPctRange[2], i - 1, steps),
                    base_risk_frac)
    IN  l[k]

\* a constructor without the bootstrap
ensure_configs_skipped(rows, num_configs) == rows

\* _ensure_configs_exist
ensure_configs_exist(rows, num_configs) ==
    IF rows # <<>> THEN rows
    ELSE Ladder(num_configs, IF num_configs > 0 THEN num_configs ELSE 0, RiskFracBps)

\* a row of table trades as the bandit reads it: config_id and pnl
TradeRow(c, pnl) ==
    [side |-> IF pnl = 0 THEN "BUY" ELSE "SELL", price |-> 0, qty |-> 0,
     fee |-> RatInt(0), pnl |-> RatInt(pnl), balance_after |-> RatInt(0),
     config_id |-> c, cid |-> None]

\* SUM(pnl) over rows given as pairs <<pnl, number of rows with that pnl>>
RECURSIVE SumPnl(_)
SumPnl(S) ==
    IF S = {} THEN RatInt(0)
    ELSE LET x == CHOOSE y \in S : TRUE
         IN  RatAdd(Rat(x[1].n * x[2], x[1].d), SumPnl(S \ {x}))

\* get_config_performance: SELECT config_id, COUNT(*), SUM(pnl), AVG(pnl) FROM trades
\* GROUP BY config_id, keyed by config_id as perf_index is
get_config_performance(rows) ==
    [c \in {rows[k].config_id : k \in DOMAIN rows} |->
        LET mine == {k \in DOMAIN rows : rows[k].config_id = c}
            n == Cardinality(mine)
            total == SumPnl({<<v, Cardinality({k \in mine : rows[k].pnl = v})>> :
                               v \in {rows[k].pnl : k \in mine}})
        IN  [config_id |-> c, num_trades |-> n, total_pnl |-> total,
             avg_pnl |-> Rat(total.n, total.d * n)]]

\* avg * (n / 20.0), the cap at 1.0 left out
score_config_uncapped(p) ==
    Rat(p.avg_pnl.n * p.num_trades, p.avg_pnl.d * BonusTrades)

\* _score_config: avg * min(n / 20.0, 1.0)
score_config(p) ==
    LET bonus == IF p.num_trades >= BonusTrades THEN RatInt(1)
                 ELSE Rat(p.num_trades, BonusTrades)
    IN  Rat(p.avg_pnl.n * bonus.n, p.avg_pnl.d * bonus.d)

\* lines 46-53: a score for every configuration, 0.0 without a performance row
Scored(cfgs, rows) ==
    LET perf_index == get_config_performance(rows)
    IN  [i \in DOMAIN cfgs |->
            [score |-> IF cfgs[i].id \in DOMAIN perf_index
                       THEN score_config(perf_index[cfgs[i].id]) ELSE RatInt(0),
             cfg |-> cfgs[i]]]

\* the same sort, ascending
SortAsc(seq) ==
    LET put(sorted, x) ==
            LET k == Cardinality({j \in DOMAIN sorted : RatLeq(sorted[j].score, x.score)})
            IN  SubSeq(sorted, 1, k) \o <<x>> \o SubSeq(sorted, k + 1, Len(sorted))
        f[k \in 0..Len(seq)] == IF k = 0 THEN <<>> ELSE put(f[k - 1], seq[k])
    IN  f[Len(seq)]

\* list.sort(key=score, reverse=True): descending and stable, equal scores keep
\* their order
SortDesc(seq) ==
    LET put(sorted, x) ==
            LET k == Cardinality({j \in DOMAIN sorted : RatLeq(x.score, sorted[j].score)})
            IN  SubSeq(sorted, 1, k) \o <<x>> \o SubSeq(sorted, k + 1, Len(sorted))
        f[k \in 0..Len(seq)] == IF k = 0 THEN <<>> ELSE put(f[k - 1], seq[k])
    IN  f[Len(seq)]

\* choose_active_config; random.random() lies in [0, 1)
choose_active_config ==
    IF get_all_configs = <<>>
    THEN chosen' = [res |-> "RuntimeError", id |-> None, reason |-> "none"]
    ELSE \/ /\ pm.exploration_eps > 0
            /\ \E i \in DOMAIN get_all_configs :
                 chosen' = [res |-> "config", id |-> get_all_configs[i].id,
                            reason |-> "exploration"]
         \/ /\ pm.exploration_eps < 100
            /\ chosen' = [res |-> "config",
                          id |-> SortDesc(Scored(get_all_configs, trades))[1].cfg.id,
                          reason |-> "exploitation"]

\* the tables of an earlier run: a ladder, and for each of its configurations no trade
\* or a run of trades of one pnl
Histories(n) ==
    LET blocks == {[k |-> 0, pnl |-> 0]} \cup [k : HistCounts, pnl : HistPnls]
        table(h) ==
            LET t[c \in 0..n] ==
                    IF c = 0 THEN <<>>
                    ELSE t[c - 1] \o [i \in 1..h[c].k |-> TradeRow(c, h[c].pnl)]
            IN  t[n]
    IN  {table(h) : h \in [1..n -> blocks]}

InitBandit ==
    /\ pm \in [built : {FALSE}, num_configs : NumConfigsValues, exploration_eps : EpsValues]
    /\ configs \in {Ladder(n, n, OldRiskFracBps) : n \in NumConfigsValues}
    /\ trades \in Histories(Len(configs))
    /\ chosen = NoChoice

IdleBandit ==
    /\ configs = <<>>
    /\ pm = NoPm
    /\ chosen = NoChoice

\* ParamManager(...): the constructor returns
Construct ==
    /\ ~pm.built
    /\ configs' = ensure_configs_exist(configs, pm.num_configs)
    /\ pm' = [pm EXCEPT !.built = TRUE]
    /\ chosen' = NoChoice
    /\ UNCHANGED <<trades, notBandit>>

\* ParamManager(...): an insert_config of the bootstrap raises and the process ends
\* with the rows inserted before it
ConstructFails ==
    /\ ~pm.built
    /\ configs = <<>>
    /\ \E k \in 0..(pm.num_configs - 1) : configs' = Ladder(pm.num_configs, k, RiskFracBps)
    /\ UNCHANGED <<pm, chosen, trades, notBandit>>

Choose ==
    /\ pm.built
    /\ choose_active_config
    /\ UNCHANGED <<configs, pm, trades, notBandit>>

\* insert_trade under one of the configurations
RecordTrade ==
    /\ pm.built
    /\ Len(trades) < MaxBanditTrades
    /\ \E i \in DOMAIN configs, pnl \in RecordPnls :
        trades' = Append(trades, TradeRow(configs[i].id, pnl))
    /\ chosen' = NoChoice
    /\ UNCHANGED <<configs, pm, notBandit>>

\* the process ends and is started again, possibly with another num_configs in
\* config.json
Restart ==
    /\ pm.built
    /\ \E n \in NumConfigsValues : pm' = [pm EXCEPT !.built = FALSE, !.num_configs = n]
    /\ chosen' = NoChoice
    /\ UNCHANGED <<configs, trades, notBandit>>

NextBandit == Construct \/ ConstructFails \/ Choose \/ RecordTrade \/ Restart

-----------------------------------------------------------------------------
(* Client order ids: src/src/main.py lines 12-15, 108, 178 and 225, and the *)
(* cut of order_limit_maker (src/src/exchange_binance.py line 176).         *)
(* An id is f"{BOT_TAG}_<tag>_{now_ts()}" with now_ts() the wall clock in   *)
(* whole seconds.  Which ticks place an order is decided by the price path  *)
(* and by the exchange; here every tick may place a buy and a sell.         *)

BOT_TAG == "BTCBOT10PCT"

\* client_order_id[:36]
CidLimit == 36

\* time.sleep(5) of the exception handler
ErrorSleep == 5

\* the wall clock at the first start, in seconds since 1970
Epoch == 1700000000

\* bounds: the seconds that pass, the placement attempts and the starts of the bot
MaxElapsed == 6
MaxAttempts == 3
MaxRuns == 2

\* poll_interval_seconds: an int of config.json
PollIntervals == {0, 1}

CidTags == {"BUY", "SELL", "RESUME_SELL"}

\* number of decimal digits of str(n)
RECURSIVE Digits(_)
Digits(n) == IF n < 10 THEN 1 ELSE 1 + Digits(n \div 10)

\* f"{BOT_TAG}_{tag}_{now_ts()}"
mk_client_id(tag, ts) == [tag |-> tag, ts |-> ts]

\* len() of the id
CidLen(c) == Len(BOT_TAG) + 1 + Len(c.tag) + 1 + Digits(c.ts)

\* client_order_id[:36]: the characters after the 36th, digits of the time stamp, are cut
Cut36(c) ==
    IF CidLen(c) <= CidLimit THEN c
    ELSE [c EXCEPT !.ts = c.ts \div Pow10(CidLen(c) - CidLimit)]

InitIds ==
    \E p \in PollIntervals :
        ids = [pc |-> "start", now |-> Epoch, poll |-> p, sent |-> <<>>, runs |-> 1]

IdleIds == ids = [pc |-> "off", now |-> Epoch, poll |-> 0, sent |-> <<>>, runs |-> 0]

\* the wall clock passes a second boundary while the bot runs or waits to be started
ClockTicks ==
    /\ ids.pc # "off"
    /\ ids.now < Epoch + MaxElapsed
    /\ ids' = [ids EXCEPT !.now = ids.now + 1]
    /\ UNCHANGED notIds

\* lines 27-89: configuration, exchange wrapper, bandit and strategy are set up
IdsStart ==
    /\ ids.pc = "start"
    /\ ids' = [ids EXCEPT !.pc = "resume"]
    /\ UNCHANGED notIds

\* what a placement with id c leaves: the id was sent, and the call returned or raised
Placed(c, returned, raised) ==
    /\ Len(ids.sent) < MaxAttempts
    /\ \E to \in {returned, raised} :
        ids' = [ids EXCEPT !.sent = Append(ids.sent, Cut36(c)), !.pc = to]

\* lines 91-116: an open position is resumed and its sell placed (line 108-109), or
\* there is none; an exception is caught at line 115 and the loop is entered
IdsResumeSell ==
    /\ ids.pc = "resume"
    /\ \/ Placed(mk_client_id("RESUME_SELL", ids.now), "buy", "buy")
       \/ ids' = [ids EXCEPT !.pc = "buy"]
    /\ UNCHANGED notIds

\* lines 144-185: the buy logic of a tick places a buy (line 178-180) or does not
IdsBuy ==
    /\ ids.pc = "buy"
    /\ \/ Placed(mk_client_id("BUY", ids.now), "sell", "except")
       \/ ids' = [ids EXCEPT !.pc = "sell"]
    /\ UNCHANGED notIds

\* lines 197-231: the sell logic of a tick places a sell (line 225-226) or does not
IdsSell ==
    /\ ids.pc = "sell"
    /\ \/ Placed(mk_client_id("SELL", ids.now), "sleep", "except")
       \/ ids' = [ids EXCEPT !.pc = "sleep"]
    /\ UNCHANGED notIds

\* line 261: time.sleep(cfg.poll_interval_seconds), then the next tick
IdsSleep ==
    /\ ids.pc = "sleep"
    /\ ids.now + ids.poll <= Epoch + MaxElapsed
    /\ ids' = [ids EXCEPT !.now = ids.now + ids.poll, !.pc = "buy"]
    /\ UNCHANGED notIds

\* lines 266-268: time.sleep(5), then the next tick
IdsExceptSleep ==
    /\ ids.pc = "except"
    /\ ids.now + ErrorSleep <= Epoch + MaxElapsed
    /\ ids' = [ids EXCEPT !.now = ids.now + ErrorSleep, !.pc = "buy"]
    /\ UNCHANGED notIds

\* the process ends (lines 263-265, or it is killed) and the bot is started again
IdsRestart ==
    /\ ids.pc \notin {"off", "start"}
    /\ ids.runs < MaxRuns
    /\ ids' = [ids EXCEPT !.pc = "start", !.runs = ids.runs + 1]
    /\ UNCHANGED notIds

NextIds ==
    \/ ClockTicks \/ IdsStart \/ IdsResumeSell \/ IdsBuy \/ IdsSell \/ IdsSleep
    \/ IdsExceptSleep \/ IdsRestart

-----------------------------------------------------------------------------
(* Open position of the trade table: get_open_position_from_trades (src/src/db.py) *)

\* bound: the rows appended to table trades
MaxRows == 4

TradeSides == {"BUY", "SELL"}
ResumePrices == {100, 103}
ResumeQtys == {1, 2}

\* return None
NoPosition == [entry_price |-> None, qty |-> None]

\* a lookup that takes any SELL row for one that closes the position
get_open_position_any_sell(rows) ==
    LET buys == {i \in DOMAIN rows : rows[i].side = "BUY"}
    IN  IF buys = {} \/ \E j \in DOMAIN rows : rows[j].side = "SELL" THEN NoPosition
        ELSE LET buy_id == CHOOSE i \in buys : \A k \in buys : k <= i
             IN  [entry_price |-> rows[buy_id].price, qty |-> rows[buy_id].qty]

\* get_open_position_from_trades() over the rows of table trades (row id = index):
\* the BUY row with the greatest id, unless a SELL row has a greater id
get_open_position_from_trades(rows) ==
    LET buys == {i \in DOMAIN rows : rows[i].side = "BUY"}
    IN  IF buys = {} THEN NoPosition
        ELSE LET buy_id == CHOOSE i \in buys : \A k \in buys : k <= i
                 closed == \E j \in DOMAIN rows : rows[j].side = "SELL" /\ j > buy_id
             IN  IF closed THEN NoPosition
                 ELSE [entry_price |-> rows[buy_id].price, qty |-> rows[buy_id].qty]

\* no row, no call
InitResume == resume = [rows |-> <<>>, at |-> -1, ret |-> NoPosition]

IdleResume == InitResume

\* insert_trade(side, price, qty, ...): the row gets the next id
ResumeInsertTrade ==
    /\ Len(resume.rows) < MaxRows
    /\ \E side \in TradeSides, price \in ResumePrices, qty \in ResumeQtys :
        resume' = [resume EXCEPT
                     !.rows = Append(resume.rows, [side |-> side, price |-> price, qty |-> qty])]
    /\ UNCHANGED notResume

\* resume = get_open_position_from_trades(), called with `at` rows in the table
ResumeQuery ==
    /\ resume' = [resume EXCEPT !.at = Len(resume.rows),
                                 !.ret = get_open_position_from_trades(resume.rows)]
    /\ UNCHANGED notResume

NextResume == ResumeInsertTrade \/ ResumeQuery

-----------------------------------------------------------------------------
(* The start of the process: main.py lines 27-131, with the fills of a run before it *)

\* bounds of the start harness
MaxStartTrades == 3
MaxStarts == 2

\* the prices and quantities of the fills of a run (thousandths)
StartPrices == {9450, 10430}
StartQtys == {10, 20}

\* ex.get_asset_balance(base_asset) at line 98 (thousandths)
FreeBases == {0, 10, 20}

\* free_quote + free_base * spot_price at line 45 (millionths)
PortfolioValues == {LoopInitialBalance}

\* get_last_balance(): balance_after of the row with the greatest id, None without rows
get_last_balance(rows) ==
    IF rows = <<>> THEN NoneRat ELSE rows[Len(rows)].balance_after

\* min(resume["qty"], float(free_base_now))
MinQty(a, b) == IF a <= b THEN a ELSE b

\* cancel_all_open_orders(symbol): every resting order is cancelled
cancel_all_open_orders(held) ==
    [c \in DOMAIN held |-> IF held[c].status \in LiveStatuses
                           THEN [held[c] EXCEPT !.status = "CANCELED"]
                           ELSE held[c]]

\* no start yet
NoStart == [n |-> 0, last_balance |-> NoneRat, resume |-> NoPosition, free_base |-> None,
            qty_resume |-> None]

IdleStart == start = NoStart

\* the first start, on an empty database: InitLoopOn, and nothing read or resumed
InitStart ==
    /\ InitLoopOn({LoopFilters})
    /\ start = NoStart

\* lines 156-166 of a tick: the buy order of the loop is FILLED; on_buy_executed and
\* insert_trade with the balance of the strategy as balance_after
StartBuyFilled ==
    /\ pc \in {"head", "sleep"}
    /\ strat.side = "NONE"
    /\ Len(trades) < MaxStartTrades
    /\ \E price \in StartPrices, qty \in StartQtys :
        LET cid == Len(orders) + 1
            fee == MakerFee(price, qty)
            s1 == on_buy_executed(strat, price, qty, fee)
        IN  /\ strat' = s1
            /\ orders' = Append(orders, [side |-> "BUY", qty |-> qty, price |-> price,
                                         status |-> "FILLED"])
            /\ trades' = insert_trade("BUY", price, qty, fee, RatInt(0), s1.balance, cid)
    /\ pc' = "sleep"
    /\ UNCHANGED <<cfg, ob, os, tss, swAge, config_id, faults, interrupted, start, notStart>>

\* lines 204-214 of a tick: the sell order of the position is FILLED
StartSellFilled ==
    /\ pc \in {"head", "sleep"}
    /\ strat.side = "LONG"
    /\ Len(trades) < MaxStartTrades
    /\ \E price \in StartPrices :
        LET cid == Len(orders) + 1
            fee == MakerFee(price, strat.qty)
            pnl == SellPnl(strat, price, strat.qty, fee)
            s1 == on_sell_executed(strat, price, strat.qty, fee)
        IN  /\ strat' = s1
            /\ orders' = Append(orders, [side |-> "SELL", qty |-> strat.qty, price |-> price,
                                         status |-> "FILLED"])
            /\ trades' = insert_trade("SELL", price, strat.qty, fee, pnl, s1.balance, cid)
    /\ tss' = tss + 1
    /\ pc' = "sleep"
    /\ UNCHANGED <<cfg, ob, os, swAge, config_id, faults, interrupted, start, notStart>>

\* lines 263-265: KeyboardInterrupt ends the process; table trades stays on disk
StartStop ==
    /\ pc \in {"head", "sleep"}
    /\ start.n < MaxStarts
    /\ pc' = "stopped"
    /\ interrupted' = TRUE
    /\ UNCHANGED <<cfg, strat, ob, os, tss, swAge, config_id, trades, orders, faults, start,
                   notStart>>

\* lines 27-131: the process is started again. cancel: cancel_open_orders_on_start;
\* pv: the portfolio value; i: the configuration the bandit chose; fb: the free base
\* asset. The placement of the resume sell can raise: line 115 swallows it.
StartMain ==
    /\ pc = "stopped"
    /\ \E cancel \in BOOLEAN, pv \in PortfolioValues, i \in DOMAIN LoopConfigs,
          fb \in FreeBases :
        LET swept == IF cancel THEN cancel_all_open_orders(orders) ELSE orders
            last_balance == get_last_balance(trades)
            initial_balance == IF last_balance = NoneRat THEN RatInt(pv) ELSE last_balance
            c0 == LoopStrategyConfig(i)
            s0 == NewStrategy(initial_balance)
            res == get_open_position_from_trades(trades)
            qty_resume == quantize_step(MinQty(res.qty, fb), filters.step_size)
            s1 == on_buy_executed(s0, res.entry_price, qty_resume, RatInt(0))
            qprice == quantize_tick(target_sell_for_net(c0, res.entry_price,
                                                        c0.min_profit_pct_net, TRUE),
                                    filters.tick_size)
        IN  /\ cfg' = c0
            /\ config_id' = i
            /\ IF res = NoPosition
               THEN /\ strat' = s0
                    /\ orders' = swept
                    /\ faults' = faults
                    /\ start' = [n |-> start.n + 1, last_balance |-> last_balance,
                                 resume |-> res, free_base |-> None, qty_resume |-> None]
               ELSE /\ start' = [n |-> start.n + 1, last_balance |-> last_balance,
                                 resume |-> res, free_base |-> fb,
                                 qty_resume |-> qty_resume]
                    /\ IF qty_resume >= filters.min_qty
                       THEN /\ strat' = s1
                            /\ \E out \in PlaceResults(qty_resume, qprice, faults) :
                                /\ orders' = IF out.res = "order"
                                             THEN Append(swept, NewOrder("SELL", out))
                                             ELSE swept
                                /\ faults' = faults - out.fault
                       ELSE /\ strat' = s0
                            /\ orders' = swept
                            /\ faults' = faults
    /\ tss' = 0
    /\ swAge' = 0
    /\ ob' = NoOpen
    /\ os' = NoOpen
    /\ interrupted' = FALSE
    /\ pc' = "head"
    /\ UNCHANGED <<trades, notStart>>

NextStart == StartBuyFilled \/ StartSellFilled \/ StartStop \/ StartMain

IdleAux == IdleIds /\ IdleResume /\ IdleStart

InitLedgerOnly ==
    InitLedger /\ IdleGuard /\ IdleRetry /\ IdleStrategy /\ IdleLoop /\ IdleMerge
    /\ IdleBandit /\ IdleAux

SpecLedger == InitLedgerOnly /\ [][NextLedger]_vars

IdleLedger == InitLedger

NextGuard == OrderLimitMaker \/ OrderMarket \/ OrderDone

InitGuardOnly ==
    InitGuard /\ IdleLedger /\ IdleRetry /\ IdleStrategy /\ IdleLoop /\ IdleMerge
    /\ IdleBandit /\ IdleAux

SpecGuard == InitGuardOnly /\ [][NextGuard]_vars

InitRetryOnly ==
    InitRetry /\ IdleLedger /\ IdleGuard /\ IdleStrategy /\ IdleLoop /\ IdleMerge
    /\ IdleBandit /\ IdleAux

InitStrategyOnly ==
    InitStrategy /\ IdleLedger /\ IdleGuard /\ IdleRetry /\ IdleLoop /\ IdleMerge
    /\ IdleBandit /\ IdleAux

SpecStrategy == InitStrategyOnly /\ [][NextStrategy]_vars

SpecRetry == InitRetryOnly /\ [][NextRetry]_vars

InitMergeOnly ==
    InitMerge /\ IdleLedger /\ IdleGuard /\ IdleRetry /\ IdleStrategy /\ IdleLoop
    /\ IdleBandit /\ IdleAux

NextMerge == MergeBuy

SpecMerge == InitMergeOnly /\ [][NextMerge]_vars

\* the bandit beside a loop that is not running: table trades is the bandit's input
InitBanditOnly ==
    /\ InitBandit
    /\ IdleLedger /\ IdleGuard /\ IdleRetry /\ IdleStrategy /\ IdleMerge
    /\ pc = "off" /\ tk = NoTick /\ ob = NoOpen /\ os = NoOpen /\ tss = 0 /\ swAge = 0
    /\ config_id = 1 /\ orders = <<>> /\ faults = 0 /\ nFills = 0 /\ unrec = {}
    /\ interrupted = FALSE
    /\ IdleAux

SpecBandit == InitBanditOnly /\ [][NextBandit]_vars

InitLoopOnly ==
    /\ InitLoop
    /\ IdleLedger
    /\ IdleRetry
    /\ gCall = NoCall
    /\ gResult = "none"
    /\ sOut = NoOut
    /\ sExec = 0
    /\ IdleMerge
    /\ IdleBandit /\ IdleAux

\* the control loop with its exchange
Spec == InitLoopOnly /\ [][Next]_vars

\* the control loop beside an exchange that only fills orders: the loop keeps running
\* (time.sleep returns, every call of a tick returns or raises)
NextQuiet == LoopStep \/ ExchangeFills

FairSpec == InitLoopOnly /\ [][NextQuiet]_vars /\ WF_vars(LoopStep)

InitLoopFineOnly ==
    /\ InitLoopFine
    /\ IdleLedger
    /\ IdleRetry
    /\ gCall = NoCall
    /\ gResult = "none"
    /\ sOut = NoOut
    /\ sExec = 0
    /\ IdleMerge
    /\ IdleBandit
    /\ IdleAux

\* the control loop on the symbol with the fine step, beside an exchange that only
\* fills orders: a position can be closed and a second buy sized and placed
SpecFine == InitLoopFineOnly /\ [][NextQuiet]_vars

InitIdsOnly ==
    /\ InitIds
    /\ IdleLedger /\ IdleGuard /\ IdleRetry /\ IdleStrategy /\ IdleLoop /\ IdleMerge
    /\ IdleBandit /\ IdleResume /\ IdleStart

\* the client order ids of the bot over its starts
SpecIds == InitIdsOnly /\ [][NextIds]_vars

InitResumeOnly ==
    /\ InitResume
    /\ IdleLedger /\ IdleGuard /\ IdleRetry /\ IdleStrategy /\ IdleLoop /\ IdleMerge
    /\ IdleBandit /\ IdleIds /\ IdleStart

\* table trades and the lookup of the open position
SpecResume == InitResumeOnly /\ [][NextResume]_vars

InitStartOnly ==
    /\ InitStart
    /\ IdleLedger
    /\ IdleRetry
    /\ gCall = NoCall
    /\ gResult = "none"
    /\ sOut = NoOut
    /\ sExec = 0
    /\ IdleMerge
    /\ IdleBandit
    /\ IdleIds /\ IdleResume

\* the runs of the process and its starts on the table trades the runs left
SpecStart == InitStartOnly /\ [][NextStart]_vars

(* Claims about the lot ledger *)

AllowedStatusChanges ==
    {<<"OPEN", "SELL_PLACED">>, <<"SELL_PLACED", "CLOSED">>, <<"SELL_PLACED", "OPEN">>}

\* C1 (whole claim): over any sequence of ledger operations a lot's status changes
\* only along OPEN->SELL_PLACED, SELL_PLACED->CLOSED or SELL_PLACED->OPEN.
C1_OnlyAllowedStatusChanges ==
    [][\A i \in DOMAIN lots :
          lots'[i].status # lots[i].status
             => <<lots[i].status, lots'[i].status>> \in AllowedStatusChanges]_vars

\* C1 (its "in particular" clause): a CLOSED lot never becomes SELL_PLACED or OPEN
\* again, whatever ledger operation is applied to it.
C1_ClosedLotStaysClosed ==
    [][\A i \in DOMAIN lots :
          lots[i].status = "CLOSED" => lots'[i].status = "CLOSED"]_vars

\* C2 (whole claim): in every reachable ledger state every lot has remaining
\* quantity >= 0 and every CLOSED lot has remaining quantity exactly 0.
C2_QuantityInvariant ==
    \A i \in DOMAIN lots :
        /\ lots[i].qty_remaining >= 0
        /\ lots[i].status = "CLOSED" => lots[i].qty_remaining = 0

\* C2 (its CLOSED clause): no lot whose status is CLOSED still holds quantity,
\* also after close_lot on a lot that still holds quantity.
C2_ClosedLotHoldsNothing ==
    \A i \in DOMAIN lots :
        lots[i].status = "CLOSED" => ~(lots[i].qty_remaining > 0)

(* Claims about the order execution guard *)

\* C3: no order-creation call (limit-maker or market) is issued with a quantized
\* quantity below the minimum quantity, or with quantized quantity x quantized
\* price below the minimum notional.
C3_NoUndersizedCall ==
    gCall.type # "none" =>
        /\ gCall.qty >= filters.min_qty
        /\ gCall.type = "LIMIT_MAKER" => gCall.qty * gCall.price >= filters.min_notional

(* Claims about the guarded exchange call *)

Last(seq) == seq[Len(seq)]

\* C4: a guarded call ends after at most 5 attempts; it re-attempts only after a
\* transient failure, returns the first successful result, surfaces a permanent
\* failure at once (that attempt is not retried), and surfaces a transient
\* failure once 5 consecutive attempts were transient.
C4_BoundedRetry ==
    /\ Len(rHistory) <= 5
    /\ \A k \in 1..(Len(rHistory) - 1) : rHistory[k] \in TransientMarkers
    /\ rState \in {"calling", "waiting"} => Len(rHistory) < 5
    /\ rState = "waiting" => Len(rHistory) >= 1 /\ Last(rHistory) \in TransientMarkers
    /\ rState = "returned" => Last(rHistory) = "ok"
    /\ rState = "raised" =>
          \/ Last(rHistory) \in PermanentErrors
          \/ Len(rHistory) = 5 /\ \A k \in 1..5 : rHistory[k] \in TransientMarkers
    /\ (Len(rHistory) >= 1 /\ Last(rHistory) = "ok") => rState = "returned"
    /\ (Len(rHistory) >= 1 /\ Last(rHistory) \in PermanentErrors) => rState = "raised"
    /\ Len(rHistory) = 5 => rState \in {"returned", "raised"}

\* a call that was retried four times and gave up on the fifth transient failure
C4_Witness_Exhausted ==
    /\ rState = "raised"
    /\ Len(rHistory) = 5
    /\ Last(rHistory) \in TransientMarkers
    /\ rSlept = 15

(* Claims about the percent strategy *)

\* C8: the sell target returned by target_sell_for_net(pb, r) yields a net margin
\* (ps(1-f-s) - pb(1+f+s)) / (pb(1+f+s)) that is never below r.
C8_NetMarginNeverBelowTarget ==
    sOut.op = "target_sell_for_net" =>
        LET pb == sOut.price
            r == sOut.arg
            ps == sOut.ret
            f == cfg.fee_maker
            x == cfg.extra_fee_safety_bps
        IN  RatLeq(Rat(r, Bps), Rat(ps * (Bps - f - x) - pb * (Bps + f + x), pb * (Bps + f + x)))

\* C9: maybe_prices(price) returns the intent of the trigger state machine: in NONE,
\* WANT_BUY at ref*(1 - minChangePct) iff (ref - price)/ref >= minChangePct, else HOLD
\* with no target; in LONG, WANT_SELL iff (price - entry)/entry >= maxChangePct, else
\* HOLD_LONG, with the required sell target for the entry price in both cases.
C9_MaybePricesIntent ==
    sOut.op = "maybe_prices" =>
        LET price == sOut.price
            out == sOut.ret
            ref == strat.ref_price
            entry == strat.entry_price
        IN  /\ strat.side = "NONE" =>
                IF (ref - price) * Bps >= cfg.min_change_pct * ref
                THEN /\ out.state = "WANT_BUY"
                     /\ out.buy_price.n * Bps = ref * (Bps - cfg.min_change_pct) * out.buy_price.d
                     /\ out.sell_price = None
                ELSE /\ out.state = "HOLD"
                     /\ out.buy_price = NoneRat
                     /\ out.sell_price = None
            /\ strat.side = "LONG" =>
                /\ out.state = IF (price - entry) * Bps >= cfg.max_change_pct * entry
                               THEN "WANT_SELL" ELSE "HOLD_LONG"
                /\ out.buy_price = NoneRat
                /\ out.sell_price =
                      target_sell_for_net(cfg, entry, cfg.min_profit_pct_net, TRUE)

\* the scenario of the claim: reference 100.00, minChangePct 5 %, price 94.00 gives
\* WANT_BUY with target buy price 95.00 (prices counted in hundredths)
C9_Witness_WantBuyAt95 ==
    /\ sOut.op = "maybe_prices"
    /\ strat.side = "NONE"
    /\ strat.ref_price = 10000
    /\ cfg.min_change_pct = 500
    /\ sOut.price = 9400
    /\ sOut.ret.state = "WANT_BUY"
    /\ sOut.ret.buy_price = RatInt(9500)
-----------------------------------------------------------------------------
(* Claims about the control loop *)

\* C5: a trade record is never dropped: when the insert of the record of a detected
\* fill fails and the tick aborts, a later tick appends the record once the store
\* works again, so every fill applied to the strategy ends up recorded (the loop
\* being interrupted aside)
C5_AppliedFillEventuallyRecorded ==
    (unrec # {}) ~> (unrec = {} \/ pc = "stopped")

\* C6: no failure raised inside a tick ends the loop: the loop stops only on an
\* interrupt, and after a failure it goes on to a further tick
C6_OnlyInterruptEndsLoop ==
    /\ [](pc = "stopped" => interrupted)
    /\ [](pc = "except" => ENABLED ExceptSleep)
    /\ [][pc = "except" => pc' \in {"head", "stopped"}]_vars

\* a record insert raised, the loop was not interrupted, and a later tick is running
C6_Witness_TickAfterFailure ==
    /\ pc = "sell"
    /\ unrec # {}
    /\ ~interrupted

\* the step of a tick that runs the sell logic while the tracked sell order is
\* CANCELED or REJECTED on the exchange
SellLogicOnEndedOrder ==
    /\ pc = "sell"
    /\ pc' \notin {"sell", "stopped"}
    /\ strat.side = "LONG"
    /\ os.cid # None
    /\ StatusOf(os.cid) \in EndStatuses

C10_ReferenceRearmed ==
    [][/\ (pc = "head" /\ pc' = "buy") =>
            /\ strat.ref_price = None => strat'.ref_price = tk'.price
            /\ (strat.ref_price # None
                    /\ tk'.price * Bps > strat.ref_price * (Bps + RearmBps))
                => strat'.ref_price = tk'.price
       /\ (pc = "buy" /\ tk'.bst = "FILLED") => strat'.ref_price = orders[ob.cid].price
      ]_vars

(* Claims about quantization, the lot merge and the bandit *)

\* C11: what a limit-maker placement sends is the greatest multiple of the step size
\* not above the requested quantity and the greatest multiple of the tick size not
\* above the requested price, whatever the step and the tick (0.005 included)
C11_SendsGreatestMultiples ==
    gCall.type = "LIMIT_MAKER" =>
        /\ gCall.qty = quantize_step(gCall.req_qty, filters.step_size)
        /\ gCall.price = quantize_tick(gCall.req_price, filters.tick_size)

\* C12: upsert_accum_lot(buy_price, qty) with an OPEN lot without sell reference in
\* the ledger creates no lot and leaves that lot with quantity old + qty and with the
\* volume-weighted price (old price x old quantity + buy_price x qty) / (old + qty),
\* the other lots untouched; with no such lot it appends exactly one OPEN lot
\* (buy_price, qty). The merge is stated where old + qty > 0, where the average exists.
C12_MergeOrCreate ==
    [][(lastOp'.op \in {"upsert_merge", "upsert_insert"} /\ nOps' = nOps + 1) =>
        LET p == lastOp'.buy_price
            q == lastOp'.qty
            i == lastOp'.id
        IN  IF \E j \in DOMAIN lots : lots[j].status = "OPEN" /\ lots[j].sell_client_id = NULL
            THEN /\ Len(lots') = Len(lots)
                 /\ i \in DOMAIN lots
                 /\ lots[i].status = "OPEN" /\ lots[i].sell_client_id = NULL
                 /\ lots'[i].status = "OPEN" /\ lots'[i].sell_client_id = NULL
                 /\ \A j \in DOMAIN lots \ {i} : lots'[j] = lots[j]
                 /\ lots[i].qty_remaining + q > 0 =>
                        /\ lots'[i].qty_remaining = lots[i].qty_remaining + q
                        /\ lots'[i].buy_price.n
                              * (lots[i].buy_price.d * (lots[i].qty_remaining + q))
                           = (lots[i].buy_price.n * lots[i].qty_remaining
                                + p * q * lots[i].buy_price.d) * lots'[i].buy_price.d
            ELSE /\ Len(lots') = Len(lots) + 1
                 /\ \A j \in DOMAIN lots : lots'[j] = lots[j]
                 /\ lots'[i].status = "OPEN" /\ lots'[i].sell_client_id = NULL
                 /\ lots'[i].qty_remaining = q
                 /\ lots'[i].buy_price = [n |-> p, d |-> 1]
      ]_vars

\* the example of the claim: 0.01 @ 100 then 0.02 @ 103 merged into 0.03 @ 102
C12_Witness_Merged3At102 ==
    /\ lastOp.op = "upsert_merge" /\ lastOp.buy_price = 103 /\ lastOp.qty = 2
    /\ Len(lots) = 1
    /\ lots[1].qty_remaining = 3
    /\ lots[1].buy_price = [n |-> 102, d |-> 1]

\* C14: set_lot_sell applied to a lot that is SELL_PLACED or CLOSED leaves the lot's
\* status, sell reference and target price as they were
C14_ArmSellOnlyOnOpen ==
    [][(/\ lastOp'.op = "set_lot_sell" /\ nOps' = nOps + 1
        /\ lastOp'.id \in DOMAIN lots
        /\ lots[lastOp'.id].status # "OPEN") =>
            /\ lots'[lastOp'.id].status = lots[lastOp'.id].status
            /\ lots'[lastOp'.id].sell_client_id = lots[lastOp'.id].sell_client_id
            /\ lots'[lastOp'.id].target_price = lots[lastOp'.id].target_price
      ]_vars

\* C13: from a ledger without an open lot, upsert_accum_lot of (p1, q1) then (p2, q2)
\* leaves the same lot quantity and the same average buy price as (p2, q2) then
\* (p1, q1), for positive prices and quantities
C13_MergeOrderInvariant ==
    merge.n = 2 =>
        /\ Len(merge.fwd) = Len(merge.rev)
        /\ Last(merge.fwd).qty_remaining = Last(merge.rev).qty_remaining
        /\ Last(merge.fwd).buy_price.n * Last(merge.rev).buy_price.d
             = Last(merge.rev).buy_price.n * Last(merge.fwd).buy_price.d

\* two buys of different price and different quantity were merged in both orders
C13_Witness_BothOrdersMerged ==
    /\ merge.n = 2
    /\ merge.p1 # merge.p2 /\ merge.q1 # merge.q2
    /\ Last(merge.fwd).qty_remaining = merge.q1 + merge.q2
    /\ Last(merge.rev).status = "OPEN"

\* the score the claims speak of: average pnl of the configuration's trades times
\* min(number of trades / 20, 1), and 0 without trades
ClaimedScore(i) ==
    LET mine == {k \in DOMAIN trades : trades[k].config_id = configs[i].id}
        n == Cardinality(mine)
        total == SumPnl({<<v, Cardinality({k \in mine : trades[k].pnl = v})>> :
                           v \in {trades[k].pnl : k \in mine}})
    IN  IF n = 0 THEN RatInt(0)
        ELSE IF n >= 20 THEN Rat(total.n, total.d * n)
        ELSE Rat(total.n, total.d * 20)

TradesOf(i) == Cardinality({k \in DOMAIN trades : trades[k].config_id = configs[i].id})

RatLess(x, y) == x.n * y.d < y.n * x.d

\* C15: with exploration_eps = 0 choose_active_config returns a configuration whose
\* score is maximal over all configurations, and every configuration listed before
\* it scores strictly less (it is the first of those tied for the maximum)
C15_ExploitationPicksFirstMaximal ==
    (chosen.res = "config" /\ pm.exploration_eps = 0) =>
        \E i \in DOMAIN configs :
            /\ configs[i].id = chosen.id
            /\ chosen.reason = "exploitation"
            /\ \A j \in DOMAIN configs :
                /\ RatLeq(ClaimedScore(j), ClaimedScore(i))
                /\ j < i => RatLess(ClaimedScore(j), ClaimedScore(i))

\* with eps = 0 the second of three configurations came back: it ties with the third
\* for the maximum and beats the first
C15_Witness_FirstOfTied ==
    /\ chosen.res = "config" /\ pm.exploration_eps = 0
    /\ Len(configs) = 3 /\ chosen.id = configs[2].id
    /\ ClaimedScore(2) = ClaimedScore(3)
    /\ TradesOf(2) # TradesOf(3)
    /\ RatLess(ClaimedScore(1), ClaimedScore(2))

\* C16 (as claimed): a configuration without trades comes back from an exploitation
\* choice only if every score is 0.0, and never when some configuration has trades
C16_ZeroTradeOnlyIfScoreless ==
    \A i \in DOMAIN configs :
        (/\ chosen.res = "config" /\ chosen.reason = "exploitation"
         /\ chosen.id = configs[i].id /\ TradesOf(i) = 0) =>
            /\ \A j \in DOMAIN configs : ClaimedScore(j) = RatInt(0)
            /\ \A j \in DOMAIN configs : TradesOf(j) = 0

\* C16 (amended): a configuration without trades comes back from an exploitation
\* choice only if no configuration has a positive score and every configuration
\* listed before it has a negative score
C16_ZeroTradeOnlyIfNonePositive ==
    \A i \in DOMAIN configs :
        (/\ chosen.res = "config" /\ chosen.reason = "exploitation"
         /\ chosen.id = configs[i].id /\ TradesOf(i) = 0) =>
            \A j \in DOMAIN configs :
                /\ RatLeq(ClaimedScore(j), RatInt(0))
                /\ j < i => RatLess(ClaimedScore(j), RatInt(0))

\* exploitation returned a configuration without trades although the one listed
\* before it has trades (and a negative score)
C16_Witness_ZeroTradeBeatsLoser ==
    /\ chosen.res = "config" /\ chosen.reason = "exploitation"
    /\ Len(configs) >= 2 /\ chosen.id = configs[2].id
    /\ TradesOf(2) = 0 /\ TradesOf(1) > 0
    /\ RatLess(ClaimedScore(1), RatInt(0))

\* C17: the constructor of ParamManager inserts exactly num_configs configurations
\* into an empty table, row i (from 0) at low + (high - low) * i / max(1, N - 1) of
\* either range, so the first at the range minimum and for N >= 2 the last at the
\* range maximum; it inserts nothing into a table that has a row; and no step
\* removes or alters a row of a table that has one
C17_BootstrapOnceThenConstant ==
    [][/\ (~pm.built /\ pm'.built) =>
            IF configs = <<>>
            THEN LET N == pm.num_configs
                     steps == IF N - 1 > 1 THEN N - 1 ELSE 1
                 IN  /\ Len(configs') = N
                     /\ \A i \in 1..N :
                         /\ configs'[i].min_change_pct.n * steps
                              = (MinPctRange[1] * steps
                                   + (MinPctRange[2] - MinPctRange[1]) * (i - 1))
                                * configs'[i].min_change_pct.d
                         /\ configs'[i].max_change_pct.n * steps
                              = (MaxPctRange[1] * steps
                                   + (MaxPctRange[2] - MaxPctRange[1]) * (i - 1))
                                * configs'[i].max_change_pct.d
                     /\ N >= 1 =>
                         /\ configs'[1].min_change_pct = RatInt(MinPctRange[1])
                         /\ configs'[1].max_change_pct = RatInt(MaxPctRange[1])
                     /\ N >= 2 =>
                         /\ configs'[N].min_change_pct = RatInt(MinPctRange[2])
                         /\ configs'[N].max_change_pct = RatInt(MaxPctRange[2])
            ELSE configs' = configs
       /\ configs # <<>> => configs' = configs
      ]_vars

\* the constructor has inserted a ladder of three
C17_Witness_LadderOfThree ==
    /\ pm.built /\ pm.num_configs = 3
    /\ Len(configs) = 3
    /\ configs[3].trade_qty_frac = RiskFracBps
    /\ configs[2].min_change_pct = RatInt(650)
    /\ configs[2].max_change_pct = RatInt(1200)

\* C18 (as claimed): choose_active_config on an empty table raises the error, returns
\* no configuration and leaves the table empty; and once a ParamManager is
\* constructed no selection ends with that error
C18_NeverAbsentAfterBootstrap ==
    /\ [][(pm.built /\ chosen' # chosen /\ chosen'.res # "none" /\ configs = <<>>) =>
            (chosen'.res = "RuntimeError" /\ chosen'.id = None /\ configs' = configs)]_vars
    /\ [](pm.built => chosen.res # "RuntimeError")

\* C18 (amended): the same on an empty table; a selection on a table with a row
\* returns a configuration; and once a ParamManager with num_configs >= 1 is
\* constructed the table has a row and no selection ends with that error
C18_AbsentOnlyOnEmptyStore ==
    /\ [][(pm.built /\ chosen' # chosen /\ chosen'.res # "none") =>
            IF configs = <<>>
            THEN chosen'.res = "RuntimeError" /\ chosen'.id = None /\ configs' = configs
            ELSE chosen'.res = "config"]_vars
    /\ []((pm.built /\ pm.num_configs >= 1) =>
            (configs # <<>> /\ chosen.res # "RuntimeError"))

\* a selection on the empty table ended with the error
C18_Witness_AbsentRaised ==
    /\ pm.built
    /\ configs = <<>>
    /\ chosen.res = "RuntimeError"

(* Claims about rejected placements in the control loop *)

\* a reference the loop tracks for a placement the exchange refused as would-cross:
\* no order stands behind it
Deferred(o, held) == o.cid # None /\ o.cid \notin DOMAIN held

C20_SizeRejectionTickProceeds ==
    [][(pc \in {"buy", "sell"} /\ tk'.err = "ValueError") =>
            (orders' = orders /\ pc' \in {"sell", "rotate"})]_vars

-----------------------------------------------------------------------------
(* Claims about client order ids, interrupts and the sell callback *)

\* C21: every placement of the control loop (buy, sell, resume sell) carries a client
\* order id of at most 36 characters that differs from the id of every earlier
\* placement attempt of the bot, attempts made before a restart included.
C21_EveryPlacementIdShortAndNew ==
    \A i \in 1..Len(ids.sent) :
        /\ CidLen(ids.sent[i]) <= CidLimit
        /\ \A j \in 1..(i - 1) : ids.sent[j] # ids.sent[i]

\* C22: an external interrupt never takes effect in the middle of a tick: the loop
\* is left only where no tick is executing (before its first statement, in the sleep
\* that ends it or in the sleep of the exception handler), so the remaining steps of
\* a tick, the recording of an applied fill included, complete before the exit.
C22_InterruptOnlyBetweenTicks ==
    [][(pc' = "stopped" /\ pc # "stopped") => pc \in {"head", "sleep", "except"}]_vars

\* C23: for any LONG position and any arguments (price, qty, fee), on_sell_executed
\* returns pnl = price*qty - entryPrice*qty - fee with the qty passed to the call,
\* increases the balance by exactly price*qty - fee, sets the position to NONE and
\* returns (pnl, new balance).
C23_SellCallbackUsesPassedQty ==
    [][(sExec' = sExec + 1 /\ sOut'.op = "on_sell_executed") =>
        LET price == sOut'.price
            qty == sOut'.arg
        IN  \E fee \in StratFees :
                /\ sOut'.ret[1] =
                      RatSub(RatInt(price * qty - strat.entry_price * qty), RatInt(fee))
                /\ strat'.balance =
                      RatAdd(strat.balance, RatSub(RatInt(price * qty), RatInt(fee)))
                /\ strat'.side = "NONE"
                /\ sOut'.ret[2] = strat'.balance]_vars

\* the scenario of C24, prices counted in hundredths: buy price 95.00, maker fee
\* 0.1 % on both legs, margin target 10 %, safety buffer 10 bps, tick size 0.01
SellTargetScenario ==
    /\ sOut.op = "target_sell_for_net"
    /\ sOut.price = 9500
    /\ sOut.arg = 1000
    /\ cfg.fee_maker = 10
    /\ cfg.extra_fee_safety_bps = 10
    /\ cfg.tick_size = 1

-----------------------------------------------------------------------------
(* Claims about the rotation, the order tracking and the fills of the loop *)

\* the rotation check of the claim: a fill was recorded in this tick, or fills recorded
\* since the last selection reach switch_every_trades, or the rotation period elapsed
RotationDueAsClaimed ==
    \/ tk.bst = "FILLED"
    \/ tk.sst = "FILLED"
    \/ tss >= SwitchEveryTrades
    \/ swAge >= SwitchAfter

\* C25: the loop re-selects the active configuration at the end of a tick exactly
\* when the number of trades (recorded fills, buys and sells) since the last selection
\* has reached switch_every_trades (1 here) or the rotation period has elapsed; a
\* re-selection resets the trade counter and the timer and replaces the thresholds of
\* the strategy and the config id.
C25_RotationOnRecordedFillsOrTime ==
    [][(pc = "rotate" /\ pc' = "stats") =>
        IF RotationDueAsClaimed
        THEN /\ tss' = 0
             /\ swAge' = 0
             /\ cfg'.min_change_pct = LoopConfigs[config_id'].min_change_pct
             /\ cfg'.max_change_pct = LoopConfigs[config_id'].max_change_pct
        ELSE UNCHANGED <<tss, swAge, cfg, config_id>>]_vars

C27_OpenPositionIsTrailingBuy ==
    resume.at >= 0 =>
        LET n == resume.at
            rows == resume.rows
        IN  IF n > 0 /\ rows[n].side = "BUY"
            THEN resume.ret = [entry_price |-> rows[n].price, qty |-> rows[n].qty]
            ELSE resume.ret = NoPosition

\* BUY, SELL, BUY: the second buy is open, at its own price and quantity
C27_Witness_SecondBuyOpen ==
    /\ resume.at = 3
    /\ Len(resume.rows) = 3
    /\ resume.rows[1].side = "BUY" /\ resume.rows[1].price = 100
    /\ resume.rows[2].side = "SELL"
    /\ resume.rows[3] = [side |-> "BUY", price |-> 103, qty |-> 2]
    /\ resume.ret = [entry_price |-> 103, qty |-> 2]

\* the orders of one side that rest on the exchange
LiveOrders(side) ==
    {c \in DOMAIN orders : orders[c].side = side /\ orders[c].status \in LiveStatuses}

\* C28: in LIVE mode the exchange holds at every moment at most one live (NEW or
\* PARTIALLY_FILLED) sell order and at most one live buy order placed by the bot,
\* also after a tick in which the status query failed and returned no status.
C28_AtMostOneLiveOrderPerSide ==
    \A side \in OrderSides : Cardinality(LiveOrders(side)) <= 1

\* the order with client id c was applied to the strategy before: its fill is
\* applied and unrecorded, or a trade row carries its id
AppliedBefore(c) == c \in unrec \/ \E i \in 1..Len(trades) : trades[i].cid = c

\* C29: each filled exchange order is applied to the strategy at most once, also
\* across ticks aborted between the strategy callback and the trade insert: a tick
\* that applies the fill of the tracked buy (sell) order applies an order that no
\* earlier tick applied, and it leaves at most one trade row per order.
C29_FillAppliedAtMostOnce ==
    [][/\ (pc = "buy" /\ tk'.bst = "FILLED") => ~AppliedBefore(ob.cid)
       /\ (pc = "sell" /\ tk'.sst = "FILLED") => ~AppliedBefore(os.cid)
       /\ \A i, j \in 1..Len(trades') : trades'[i].cid = trades'[j].cid => i = j]_vars

\* the tracked buy order is FILLED on the exchange
TrackedBuyFilled == ob.cid # None /\ StatusOf(ob.cid) = "FILLED"

\* C30: in LIVE mode, once the tracked buy order is FILLED on the exchange, a later
\* tick detects the fill, records the BUY trade and moves the strategy to LONG,
\* whatever the later prices and free balances, under fair ticking with a working
\* exchange and store (a loop that was interrupted and a run in which a call failed
\* aside).
C30_FilledBuyEventuallyRecognised ==
    TrackedBuyFilled ~> (tk.bst = "FILLED" \/ pc = "stopped" \/ faults < MaxFaults)

-----------------------------------------------------------------------------
(* Claims about the re-arm of resting orders and the resume at start *)

\* line 151: the price of the buy of this tick, on the tick grid
BuyQPrice == FloorToTick(tk.buy_price.n, tk.buy_price.d, filters.tick_size)

\* the order c rests no more, and the reference o' tracks another order at `target`
Replaced(c, held, o, target) ==
    /\ c \in DOMAIN held => held[c].status \notin LiveStatuses
    /\ o.cid \notin {None, c}
    /\ o.price = target

\* C32: in LIVE mode, when the tracked order (buy or sell) is read as NEW or
\* PARTIALLY_FILLED and is older than the TTL or its price deviates from the newly
\* computed target by the re-arm threshold or more, that tick cancels it on the
\* exchange, clears the reference and places a replacement at the new target.
C32_StaleRestingOrderReplaced ==
    [][/\ (pc = "buy" /\ tk'.bst \in LiveStatuses /\ NeedsRearm(ob, BuyQPrice))
            => Replaced(ob.cid, orders', ob', BuyQPrice)
       /\ (pc = "sell" /\ tk'.sst \in LiveStatuses /\ NeedsRearm(os, SellQPrice))
            => Replaced(os.cid, orders', os', SellQPrice)]_vars

\* the last start found an open position and at least its quantity of free base asset,
\* and the loop has not run a tick since
ResumedAtStart ==
    /\ pc = "head"
    /\ start.n > 0
    /\ start.resume # NoPosition
    /\ start.free_base >= start.resume.qty

\* C31: after a restart in which the most recent BUY is unmatched by a later SELL and
\* enough base asset is free, the strategy is LONG at the recorded entry price and its
\* balance is the balance_after of the last recorded trade: the cost of the recorded
\* buy is not debited a second time.
C31_ResumeKeepsRecordedBalance ==
    ResumedAtStart =>
        /\ strat.side = "LONG"
        /\ strat.entry_price = start.resume.entry_price
        /\ strat.balance = trades[Len(trades)].balance_after

====
